---- MODULE Spec2Model ----
(***************************************************************************)
(* baretk: the disassembly drivers (ARM A32, x86/x86-64, RISC-V) and the   *)
(* lifter (decomp_disassembly) as one state machine.                        *)
(*                                                                          *)
(* A section is a sequence of bytes (0..255).  Machine words are modelled   *)
(* as bit vectors (functions from bit position to 0/1) so that shifts lose  *)
(* bits exactly where the fixed-width Rust integers lose them.              *)
(***************************************************************************)
EXTENDS Integers, Sequences, FiniteSets, TLC

(***************************************************************************)
(* Bounds of the model.                                                     *)
(***************************************************************************)
MaxArmLen == 8
MaxX86Len == 3
MaxRvLen == 6
MaxRunTail == 1
MaxStall == 2

(***************************************************************************)
(* Program constants.                                                       *)
(***************************************************************************)
U8Bits == 8
OPCODE_REX_W == 72
PREFIX_REX_W == 1

(***************************************************************************)
(* Input alphabets: the bytes the sections are built from.                  *)
(*   ARM : 0x00 (top byte of a decodable word), 0xEE (top byte of a         *)
(*         coprocessor word, which the decoder rejects)                     *)
(*   x86 : 0x14 (ADC AL, imm8), 0x48 (REX.W), 0x89 (MOV r/m, r),            *)
(*         0xC3 (RET), 0xE5 (no opcode row; as ModR/M: mod 11)              *)
(*         and, after a run of REX.W prefixes, 0xC3                         *)
(*   RV  : 0x05 0x45 (C.LI a0, 1), 0x05 0x23 (no compressed row),           *)
(*         0x23 (store opcode, 32-bit: 0x23 0x23 is SW, 0x23 0x45 has no    *)
(*         row)                                                             *)
(***************************************************************************)
ArmBytes == {0, 238}
X86Bytes == {20, 72, 137, 195, 229}
RunTailBytes == {195}
RvBytes == {5, 35, 69}
SectionAddrs == {0, 2}
SymbolAddrs == [f |-> 0, g |-> 2, h |-> 0]

RECURSIVE SeqsUpTo(_, _)
SeqsUpTo(S, n) ==
    IF n = 0 THEN {<<>>}
    ELSE LET shorter == SeqsUpTo(S, n - 1)
         IN  shorter \cup {Append(s, b) : s \in {t \in shorter : Len(t) = n - 1}, b \in S}

(***************************************************************************)
(* Fixed-width words as bit vectors.                                        *)
(***************************************************************************)
Pow2(n) == 2 ^ n

shl(x, n, W) == [i \in 0..(W - 1) |-> IF i >= n THEN x[i - n] ELSE 0]

shr(x, n, W) == [i \in 0..(W - 1) |-> IF i + n <= W - 1 THEN x[i + n] ELSE 0]

sar(x, n, W) == [i \in 0..(W - 1) |-> IF i + n <= W - 1 THEN x[i + n] ELSE x[W - 1]]

bit_or(x, y, W) == [i \in 0..(W - 1) |-> IF x[i] = 1 \/ y[i] = 1 THEN 1 ELSE 0]

bit_and(x, y, W) == [i \in 0..(W - 1) |-> IF x[i] = 1 /\ y[i] = 1 THEN 1 ELSE 0]

\* a non-negative literal below 2^31 as a W-bit word
bv_const(k, W) == [i \in 0..(W - 1) |-> IF i < 31 THEN (k \div Pow2(i)) % 2 ELSE 0]

u32_const(k) == bv_const(k, 32)

\* widening cast u16 -> u32 and the truncating cast back
zext(x, Wfrom, Wto) == [i \in 0..(Wto - 1) |-> IF i < Wfrom THEN x[i] ELSE 0]

trunc(x, Wto) == [i \in 0..(Wto - 1) |-> x[i]]

RECURSIVE bv_val(_, _)
bv_val(x, n) ==
    IF n = 0 THEN 0
    ELSE bv_val(x, n - 1) + (IF x[n - 1] = 1 THEN Pow2(n - 1) ELSE 0)

\* u32::from_le_bytes(bytes[offset..offset+4]); the caller checks the range
u32_from_le_bytes(bs, off) ==
    [i \in 0..31 |-> (bs[off + 1 + (i \div 8)] \div Pow2(i % 8)) % 2]

u16_from_le_bytes(bs, off) ==
    [i \in 0..15 |-> (bs[off + 1 + (i \div 8)] \div Pow2(i % 8)) % 2]

\* a field extraction that shifts back by the left shift only
bextr_keeps_low_bits(x, start, stop, W) == shr(shl(x, W - start - 1, W), W - start - 1, W)

\* util.rs BitExtr: (self << (BITS - start - 1)) >> (BITS - (start - stop) - 1)
bextr(x, start, stop, W) == shr(shl(x, W - start - 1, W), W - (start - stop) - 1, W)

bextr32(x, start, stop) == bv_val(bextr(x, start, stop, 32), 32)

bextr16(x, start, stop) == bv_val(bextr(x, start, stop, 16), 16)

\* BitExtr for i32 / i16: the right shift is arithmetic
bextr_signed(x, start, stop, W) == sar(shl(x, W - start - 1, W), W - (start - stop) - 1, W)

\* two's-complement value of a W-bit word (W is 16 or 32)
signed_val(x, W) ==
    LET low == bv_val(x, W - 1)
    IN  IF x[W - 1] = 1 THEN (low - Pow2(W - 2)) - Pow2(W - 2) ELSE low

None == <<"None">>
Some(v) == <<"Some", v>>
Panic == <<"Panic">>
is_some(r) == r[1] = "Some"
is_panic(r) == r[1] = "Panic"
unwrap(r) == r[2]

(***************************************************************************)
(* ARM A32 decoder (arm.rs).                                                *)
(***************************************************************************)
arm_cond(x) == bextr32(x, 31, 28)

arm_opcode(x) == bextr32(x, 24, 21)

COND_AL == 14
PSR_MODE_ALL == 0
PSR_MODE_FLAG == 1
PSR_MODE_C == 2
BLTAM_IA == 1
BLTAM_DB == 2
ARM_REG_SP == 13
ARM_REG_LR == 14
ARM_REG_PC == 15

ArmDataOps ==
    <<"And", "Eor", "Sub", "Rsb", "Add", "Adc", "Sbc", "Rsc",
      "Tst", "Teq", "Cmp", "Cmn", "Orr", "Mov", "Bic", "Mvn">>

\* Operand: Reg(r, shift, shift_type), Imm(x, shift, shift_type),
\* RegList(x), Psr(which, mode), SImm(x) are tagged tuples
ArmIns(op, args, off, c, sf) ==
    [opcode |-> op, args |-> args, offset |-> off, cond |-> c,
     set_flags |-> sf, ins_size |-> 4]

\* ((x as i32).bextr(23, 0)) << 2, as the value of the i32
bl_offset(x) == signed_val(shl(bextr_signed(x, 23, 0, 32), 2, 32), 32)

disassemble_arm_ins(ins, off) ==
    LET c == arm_cond(ins)
        psr_head == bextr32(ins, 27, 23) = 2
        reg(hi, lo) == <<"Reg", bextr32(ins, hi, lo), 0, 0>>
        rn == reg(19, 16)
        rd == reg(15, 12)
        op2 == IF ins[25] = 0
               THEN <<"Reg", bextr32(ins, 3, 0), bextr32(ins, 11, 8), bextr32(ins, 6, 5)>>
               ELSE <<"Imm", bextr32(ins, 7, 0), bextr32(ins, 11, 7), bextr32(ins, 6, 5)>>
        psr(mode) == <<"Psr", ins[22], mode>>
        block == <<rn, <<"RegList", bextr32(ins, 15, 0)>>, ins[21] = 1, bextr32(ins, 24, 23)>>
        offset2 == IF ins[25] = 0 THEN <<"Imm", bextr32(ins, 11, 0), 0, 0>>
                   ELSE <<"Reg", bextr32(ins, 3, 0), bextr32(ins, 11, 4) % 256, 0>>
        data == ArmDataOps[arm_opcode(ins) + 1]
    IN  IF bextr32(ins, 27, 4) = 1245169
            THEN Some(ArmIns("Bx", <<reg(3, 0)>>, off, c, FALSE))
        ELSE IF bextr32(ins, 27, 25) = 5 THEN
            (IF ins[24] = 0 THEN Some(ArmIns("B", <<(<<"SImm", bl_offset(ins)>>)>>, off, c, FALSE))
             ELSE Some(ArmIns("Bl", <<(<<"SImm", bl_offset(ins)>>)>>, off, c, FALSE)))
        ELSE IF bextr32(ins, 27, 25) = 4 THEN
            (IF ins[20] = 0 THEN Some(ArmIns("Stm", block, off, c, FALSE))
             ELSE Some(ArmIns("Ldm", block, off, c, FALSE)))
        ELSE IF bextr32(ins, 27, 22) = 0 THEN
            (IF ins[21] = 1
             THEN Some(ArmIns("MulA", <<reg(19, 16), reg(15, 12), reg(11, 8), reg(3, 0)>>,
                              off, c, ins[20] = 1))
             ELSE Some(ArmIns("Mul", <<reg(19, 16), reg(15, 12), reg(11, 8)>>,
                              off, c, ins[20] = 1)))
        ELSE IF psr_head /\ bextr32(ins, 21, 16) = 15 /\ bextr32(ins, 11, 0) = 0
            THEN Some(ArmIns("Mrs", <<reg(15, 12), psr(PSR_MODE_ALL)>>, off, c, FALSE))
        ELSE IF psr_head /\ bextr32(ins, 21, 12) = 671 /\ bextr32(ins, 11, 4) = 0
            THEN Some(ArmIns("Msr", <<psr(PSR_MODE_ALL), reg(3, 0)>>, off, c, FALSE))
        ELSE IF psr_head /\ bextr32(ins, 21, 12) = 543 /\ bextr32(ins, 11, 4) = 0
            THEN Some(ArmIns("Msr", <<psr(PSR_MODE_C), reg(3, 0)>>, off, c, FALSE))
        ELSE IF psr_head /\ bextr32(ins, 21, 12) = 655
            THEN Some(ArmIns("Msr", <<psr(PSR_MODE_FLAG), reg(3, 0)>>, off, c, FALSE))
        ELSE IF bextr32(ins, 27, 23) = 6 /\ bextr32(ins, 21, 12) = 655
            THEN Some(ArmIns("Msr", <<psr(PSR_MODE_FLAG),
                                      <<"Imm", bextr32(ins, 7, 0), bextr32(ins, 11, 8), 0>> >>,
                             off, c, FALSE))
        ELSE IF bextr32(ins, 27, 24) = 15 THEN Some(ArmIns("Swi", <<>>, off, c, FALSE))
        ELSE IF bextr32(ins, 27, 26) = 1 THEN
            (IF ins[20] = 0 THEN Some(ArmIns("Str", <<rd, rn, offset2>>, off, c, FALSE))
             ELSE Some(ArmIns("Ldr", <<rd, rn, offset2>>, off, c, FALSE)))
        ELSE IF bextr32(ins, 27, 26) = 0 THEN
            (IF data \in {"Tst", "Teq", "Cmp", "Cmn"}
             THEN Some(ArmIns(data, <<rn, op2>>, off, c, ins[20] = 1))
             ELSE IF data \in {"Mov", "Mvn"}
             THEN Some(ArmIns(data, <<rd, op2>>, off, c, ins[20] = 1))
             ELSE Some(ArmIns(data, <<rd, rn, op2>>, off, c, ins[20] = 1)))
        ELSE None

\* bytes[offset..offset+4] panics when the slice runs past the end
disassemble_ins(bs, off, address) ==
    IF off + 4 > Len(bs) THEN Panic
    ELSE disassemble_arm_ins(u32_from_le_bytes(bs, off), address + off)

ArmUnknown(off) == ArmIns("Unknown", <<>>, off, 0, FALSE)

(***************************************************************************)
(* x86 / x86-64 decoder (x86.rs).                                           *)
(* Operands are tagged tuples named after the Operand enum; the operand     *)
(* size picks the variant exactly as the ins_* constructors do.             *)
(***************************************************************************)
OPSIZE_BYTE == 0
OPSIZE_WORD == 1
OPSIZE_DWORD == 2
OPSIZE_QWORD == 3

X86Ins(op, r1, r2, off, size) ==
    [operation |-> op, reg1 |-> r1, reg2 |-> r2, offset |-> off, ins_size |-> size]

Nothing == <<"Nothing">>

RegOf(op_size, r) ==
    CASE op_size = OPSIZE_BYTE -> <<"Reg8H", r>>
      [] op_size = OPSIZE_WORD -> <<"Reg16", r>>
      [] op_size = OPSIZE_DWORD -> <<"Reg32", r>>
      [] op_size = OPSIZE_QWORD -> <<"Reg64", r>>

PtrRegOf(op_size, r, o) ==
    CASE op_size = OPSIZE_BYTE -> <<"PtrRegByte", r, o>>
      [] op_size = OPSIZE_WORD -> <<"PtrRegWord", r, o>>
      [] op_size = OPSIZE_DWORD -> <<"PtrRegDword", r, o>>
      [] op_size = OPSIZE_QWORD -> <<"PtrRegQword", r, o>>

PtrRegRegOf(op_size, base, index, mul) ==
    CASE op_size = OPSIZE_BYTE -> <<"PtrRegRegByte", base, index, mul>>
      [] op_size = OPSIZE_WORD -> <<"PtrRegRegWord", base, index, mul>>
      [] op_size = OPSIZE_DWORD -> <<"PtrRegRegDword", base, index, mul>>
      [] op_size = OPSIZE_QWORD -> <<"PtrRegRegQword", base, index, mul>>

PtrRelOf(op_size, rel) ==
    CASE op_size = OPSIZE_BYTE -> <<"PtrRelByte", rel>>
      [] op_size = OPSIZE_WORD -> <<"PtrRelWord", rel>>
      [] op_size = OPSIZE_DWORD -> <<"PtrRelDword", rel>>
      [] op_size = OPSIZE_QWORD -> <<"PtrRelQword", rel>>

ins_dest_src(foffset, ins_size, operation, dest, source) ==
    X86Ins(operation, dest, source, foffset, ins_size)

ins_single_op(foffset, ins_size, operation, op) ==
    X86Ins(operation, op, Nothing, foffset, ins_size)

ins_regh_regh(foffset, ins_size, operation, op_size, dest, source) ==
    ins_dest_src(foffset, ins_size, operation, RegOf(op_size, dest), RegOf(op_size, source))

ins_regh_imm8(foffset, ins_size, operation, op_size, dest, source) ==
    ins_dest_src(foffset, ins_size, operation, RegOf(op_size, dest), <<"ImmS8", source>>)

ins_preg_regh(foffset, ins_size, operation, op_size, dest, offs, source) ==
    ins_dest_src(foffset, ins_size, operation, PtrRegOf(op_size, dest, offs), RegOf(op_size, source))

ins_regh_preg(foffset, ins_size, operation, op_size, dest, source, offs) ==
    ins_dest_src(foffset, ins_size, operation, RegOf(op_size, dest), PtrRegOf(op_size, source, offs))

ins_regh_pregreg(foffset, ins_size, operation, op_size, dest, source, offs, mul) ==
    ins_dest_src(foffset, ins_size, operation, RegOf(op_size, dest),
                 PtrRegRegOf(op_size, source, offs, mul))

\* the byte and word rows name the base register as the source register
ins_pregreg_regh(foffset, ins_size, operation, op_size, source, dest, offs, mul) ==
    ins_dest_src(foffset, ins_size, operation, PtrRegRegOf(op_size, source, offs, mul),
                 IF op_size \in {OPSIZE_BYTE, OPSIZE_WORD}
                 THEN RegOf(op_size, source) ELSE RegOf(op_size, dest))

ins_regh_prel(foffset, ins_size, operation, op_size, dest, offs) ==
    ins_dest_src(foffset, ins_size, operation, RegOf(op_size, dest), PtrRelOf(op_size, offs))

ins_prel_regh(foffset, ins_size, operation, op_size, source, offs) ==
    ins_dest_src(foffset, ins_size, operation, PtrRelOf(op_size, offs), RegOf(op_size, source))

\* bytes[i] with Rust's bounds check: i is a 0-based index
InBounds(bs, i) == i < Len(bs)
ByteAt(bs, i) == bs[i + 1]
AsI8(b) == IF b >= 128 THEN b - 256 ELSE b

disassemble_x86_op_op(operation, bs, off, op_size, swap_operands) ==
    IF off + 1 >= Len(bs) THEN None
    ELSE
    LET x == ByteAt(bs, off + 1)
        md == x \div 64
        reg == (x \div 8) % 8
        rm == x % 8
    IN  IF md = 0 THEN
            IF rm = 4 THEN
                IF ~InBounds(bs, off + 2) THEN Panic
                ELSE LET y == ByteAt(bs, off + 2)
                         reg2 == (y \div 8) % 8
                         reg1 == y % 8
                         mul == (y \div 64) % 4
                     IN  IF swap_operands
                         THEN Some(ins_regh_pregreg(off, 3, operation, op_size, reg, reg1, reg2, mul))
                         ELSE Some(ins_pregreg_regh(off, 3, operation, op_size, reg, reg1, reg2, mul))
            ELSE IF rm = 5 THEN
                IF ~InBounds(bs, off + 5) THEN Panic
                ELSE LET rel == u32_from_le_bytes(bs, off + 2)
                     IN  IF swap_operands
                         THEN Some(ins_regh_prel(off, 6, operation, op_size, reg, rel))
                         ELSE Some(ins_prel_regh(off, 6, operation, op_size, reg, rel))
            ELSE
                LET dest == IF rm \in {0, 1, 2, 3, 6, 7} THEN rm ELSE 7
                IN  IF swap_operands
                    THEN Some(ins_regh_preg(off, 2, operation, op_size, reg, dest, 0))
                    ELSE Some(ins_preg_regh(off, 2, operation, op_size, dest, 0, reg))
        ELSE IF md = 1 THEN
            IF ~InBounds(bs, off + 2) THEN Panic
            ELSE LET o == AsI8(ByteAt(bs, off + 2))
                 IN  IF swap_operands
                     THEN Some(ins_regh_preg(off, 3, operation, op_size, reg, rm, o))
                     ELSE Some(ins_preg_regh(off, 3, operation, op_size, rm, o, reg))
        ELSE IF md = 3 THEN
            IF swap_operands
            THEN Some(ins_regh_regh(off, 2, operation, op_size, rm, reg))
            ELSE Some(ins_regh_regh(off, 2, operation, op_size, reg, rm))
        ELSE None

disassemble_x86_al_imm8(operation, bs, off) ==
    IF ~InBounds(bs, off + 1) THEN Panic
    ELSE Some(ins_dest_src(off, 2, operation, <<"Reg8", 0>>, <<"ImmU8", ByteAt(bs, off + 1)>>))

OpImmOperations == <<"Add", "Or", "Adc", "Sbb", "And", "Sub", "Xor", "Cmp">>

disassemble_x86_op_imm(bs, off, op_size) ==
    IF off + 1 >= Len(bs) THEN None
    ELSE
    LET x == ByteAt(bs, off + 1)
        operation == OpImmOperations[((x \div 8) % 8) + 1]
    IN  IF x \div 64 = 3 THEN
            IF ~InBounds(bs, off + 2) THEN Panic
            ELSE Some(ins_regh_imm8(off, 3, operation, op_size, x % 8, AsI8(ByteAt(bs, off + 2))))
        ELSE None

disassemble_x86_push_pop(operation, bs, off) ==
    LET imm == ByteAt(bs, off) - (IF operation = "Push" THEN 80 ELSE 88)
    IN  Some(ins_single_op(off, 1, operation, <<"Reg64", imm>>))

\* x + y on u32; overflow is the carry out of bit 31
u32_carry(x, y) ==
    LET c[i \in 0..32] == IF i = 0 THEN 0 ELSE (x[i - 1] + y[i - 1] + c[i - 1]) \div 2
    IN  c

u32_wrapping_add(x, y) ==
    LET c == u32_carry(x, y) IN [i \in 0..31 |-> (x[i] + y[i] + c[i]) % 2]

u32_add_overflows(x, y) == u32_carry(x, y)[32] = 1

\* only the rel32 form is called by the decoder (op_size = OPSIZE_DWORD)
disassemble_x86_branch_imm(operation, bs, off, op_size, checked) ==
    IF op_size = OPSIZE_BYTE THEN
        IF ~InBounds(bs, off + 1) THEN Panic
        ELSE LET imm == AsI8(ByteAt(bs, off + 1))
             IN  IF imm + 2 > 127
                 THEN (IF checked THEN Panic
                       ELSE Some(ins_single_op(off, 2, operation, <<"ImmS8", imm + 2 - 256>>)))
                 ELSE Some(ins_single_op(off, 2, operation, <<"ImmS8", imm + 2>>))
    ELSE IF op_size = OPSIZE_DWORD THEN
        IF ~InBounds(bs, off + 4) THEN Panic
        ELSE LET imm == u32_from_le_bytes(bs, off + 1)
             IN  IF u32_add_overflows(imm, u32_const(5)) /\ checked THEN Panic
                 ELSE Some(ins_single_op(off, 5, operation,
                                         <<"ImmU32", u32_wrapping_add(imm, u32_const(5))>>))
    ELSE None

disassemble_x86_mov_imm(bs, off, op_size) ==
    LET reg == ByteAt(bs, off) - (IF op_size = OPSIZE_BYTE THEN 176 ELSE 184)
    IN  IF op_size = OPSIZE_BYTE THEN
            IF ~InBounds(bs, off + 1) THEN Panic
            ELSE Some(ins_dest_src(off, 2, "Mov", <<"Reg8", reg>>, <<"ImmU8", ByteAt(bs, off + 1)>>))
        ELSE IF op_size = OPSIZE_DWORD THEN
            IF ~InBounds(bs, off + 4) THEN Panic
            ELSE Some(ins_dest_src(off, 5, "Mov", <<"Reg32", reg>>,
                                   <<"ImmU32", u32_from_le_bytes(bs, off + 1)>>))
        ELSE None

rex_w_qword_or_dword(prefix) ==
    IF (prefix \div PREFIX_REX_W) % 2 # 0 THEN OPSIZE_QWORD ELSE OPSIZE_DWORD

\* the arithmetic rows 0x00..0x3C of the opcode table; there is no SBB row
ArithOperation(opcode) ==
    CASE opcode \div 8 = 0 -> "Add"
      [] opcode \div 8 = 1 -> "Or"
      [] opcode \div 8 = 2 -> "Adc"
      [] opcode \div 8 = 4 -> "And"
      [] opcode \div 8 = 5 -> "Sub"
      [] opcode \div 8 = 6 -> "Xor"
      [] opcode \div 8 = 7 -> "Cmp"
      [] OTHER -> "None"

\* the opcode table of disassemble_x86_instruction below its REX.W row
disassemble_x86_opcode(bs, off, prefix, checked) ==
    IF off >= Len(bs) THEN None
    ELSE
    LET opcode == ByteAt(bs, off)
    IN  IF opcode < 64 /\ ArithOperation(opcode) # "None" /\ opcode % 8 <= 4 THEN
            CASE opcode % 8 = 0 ->
                   disassemble_x86_op_op(ArithOperation(opcode), bs, off, OPSIZE_BYTE, FALSE)
              [] opcode % 8 = 1 ->
                   disassemble_x86_op_op(ArithOperation(opcode), bs, off, OPSIZE_DWORD, FALSE)
              [] opcode % 8 = 2 ->
                   disassemble_x86_op_op(ArithOperation(opcode), bs, off, OPSIZE_BYTE, TRUE)
              [] opcode % 8 = 3 ->
                   disassemble_x86_op_op(ArithOperation(opcode), bs, off, OPSIZE_DWORD, TRUE)
              [] opcode % 8 = 4 ->
                   disassemble_x86_al_imm8(ArithOperation(opcode), bs, off)
        ELSE IF opcode \in 80..87 THEN disassemble_x86_push_pop("Push", bs, off)
        ELSE IF opcode \in 88..95 THEN disassemble_x86_push_pop("Pop", bs, off)
        ELSE IF opcode = 128 THEN disassemble_x86_op_imm(bs, off, OPSIZE_BYTE)
        ELSE IF opcode = 131 THEN disassemble_x86_op_imm(bs, off, rex_w_qword_or_dword(prefix))
        ELSE IF opcode = 132 THEN disassemble_x86_op_op("Mov", bs, off, OPSIZE_BYTE, FALSE)
        ELSE IF opcode = 133
            THEN disassemble_x86_op_op("Test", bs, off, rex_w_qword_or_dword(prefix), FALSE)
        ELSE IF opcode = 136 THEN disassemble_x86_op_op("Mov", bs, off, OPSIZE_BYTE, FALSE)
        ELSE IF opcode = 137
            THEN disassemble_x86_op_op("Mov", bs, off, rex_w_qword_or_dword(prefix), FALSE)
        ELSE IF opcode = 138 THEN disassemble_x86_op_op("Mov", bs, off, OPSIZE_BYTE, TRUE)
        ELSE IF opcode = 139 THEN disassemble_x86_op_op("Mov", bs, off, OPSIZE_DWORD, TRUE)
        ELSE IF opcode = 144 THEN Some(X86Ins("Nop", Nothing, Nothing, off, 1))
        ELSE IF opcode \in 176..183 THEN disassemble_x86_mov_imm(bs, off, OPSIZE_BYTE)
        ELSE IF opcode \in 184..191 THEN disassemble_x86_mov_imm(bs, off, OPSIZE_DWORD)
        ELSE IF opcode = 195 THEN Some(X86Ins("Ret", Nothing, Nothing, off, 1))
        ELSE IF opcode = 232
            THEN disassemble_x86_branch_imm("Call", bs, off, OPSIZE_DWORD, checked)
        ELSE None

\* the number of REX.W bytes in a row at off
rex_w_run(bs, off) ==
    LET stops == {i \in off..Len(bs) : i = Len(bs) \/ ByteAt(bs, i) # OPCODE_REX_W}
    IN  (CHOOSE i \in stops : \A j \in stops : i <= j) - off

\* The REX.W row calls the function again at offset + 1 with the prefix bit
\* set, then does `ins_size += 1; offset = offset` on the way back: a run of
\* n prefixes adds n to the u8 ins_size, one at a time.  `ins_size += 1`
\* panics at 255 when overflow checks are on (debug profile) and wraps to 0
\* when they are off (release profile).
disassemble_x86_instruction(bs, off, prefix, checked) ==
    LET n == rex_w_run(bs, off)
        ins == disassemble_x86_opcode(bs, off + n,
                   IF n > 0 /\ (prefix \div PREFIX_REX_W) % 2 = 0
                   THEN prefix + PREFIX_REX_W ELSE prefix, checked)
    IN  IF n = 0 \/ ~is_some(ins) THEN ins
        ELSE IF unwrap(ins).ins_size + n >= Pow2(U8Bits) /\ checked THEN Panic
        ELSE Some([unwrap(ins) EXCEPT
                     !.ins_size = (unwrap(ins).ins_size + n) % Pow2(U8Bits),
                     !.offset = off])

X86Unknown(off) == X86Ins("Unknown", Nothing, Nothing, off, 1)

\* REG_NAMES[x][s]: columns 8-bit, 16-bit, 32-bit, 64-bit, 8-bit high
X86_REG_NAMES ==
    << <<"al", "ax", "eax", "rax", "al">>, <<"cl", "cx", "ecx", "rcx", "cl">>,
       <<"dl", "dx", "edx", "rdx", "dl">>, <<"bl", "bx", "ebx", "rbx", "bl">>,
       <<"spl", "sp", "esp", "rsp", "ah">>, <<"bpl", "bp", "ebp", "rbp", "ch">>,
       <<"sil", "si", "esi", "rsi", "dh">>, <<"dil", "di", "edi", "rdi", "bh">> >>

print_reg(s, x) == X86_REG_NAMES[x + 1][s + 1]

\* x86::Operand::into: the operand of the common instruction struct
x86_operand_into(operand) ==
    LET tag == operand[1]
    IN  CASE tag = "Reg8" -> <<"Register", print_reg(0, operand[2])>>
          [] tag = "Reg8H" -> <<"Register", print_reg(4, operand[2])>>
          [] tag = "Reg16" -> <<"Register", print_reg(1, operand[2])>>
          [] tag = "Reg32" -> <<"Register", print_reg(2, operand[2])>>
          [] tag = "Reg64" -> <<"Register", print_reg(3, operand[2])>>
          [] tag \in {"ImmU8", "ImmU32", "ImmS8"} -> <<"Immediate", operand[2]>>
          [] tag = "PtrRegByte" -> <<"Memory", print_reg(3, operand[2]), "", operand[3], 1>>
          [] tag = "PtrRegWord" -> <<"Memory", print_reg(3, operand[2]), "", operand[3], 2>>
          [] tag = "PtrRegDword" -> <<"Memory", print_reg(3, operand[2]), "", operand[3], 4>>
          [] tag = "PtrRegQword" -> <<"Memory", print_reg(3, operand[2]), "", operand[3], 8>>
          [] tag = "PtrRelByte" -> <<"Memory", ".", "", operand[2], 1>>
          [] tag = "PtrRelWord" -> <<"Memory", ".", "", operand[2], 2>>
          [] tag = "PtrRelDword" -> <<"Memory", ".", "", operand[2], 4>>
          [] tag = "PtrRelQword" -> <<"Memory", ".", "", operand[2], 8>>
          [] tag = "PtrRegRegByte" ->
               <<"Memory", print_reg(3, operand[2]), print_reg(0, operand[3]), 0, 1>>
          [] tag = "PtrRegRegWord" ->
               <<"Memory", print_reg(3, operand[2]), print_reg(1, operand[3]), 0, 2>>
          [] tag = "PtrRegRegDword" ->
               <<"Memory", print_reg(3, operand[2]), print_reg(2, operand[3]), 0, 4>>
          [] tag = "PtrRegRegQword" ->
               <<"Memory", print_reg(3, operand[2]), print_reg(3, operand[3]), 0, 8>>
          [] OTHER -> Nothing

\* x86::Instruction::into: the operations it has no row for end in panic!("").
\* The result keeps the offset it was decoded at, which the lifter reads.
x86_into(ins) ==
    LET r1 == x86_operand_into(ins.reg1)
        r2 == x86_operand_into(ins.reg2)
        mk(opcode, operands) == Some([opcode |-> opcode, operands |-> operands,
                                      flags |-> 0, offset |-> ins.offset])
    IN  CASE ins.operation = "Add" -> mk("add", <<r1, r1, r2>>)
          [] ins.operation = "Sub" -> mk("sub", <<r1, r1, r2>>)
          [] ins.operation = "And" -> mk("and", <<r1, r1, r2>>)
          [] ins.operation = "Or" -> mk("or", <<r1, r1, r2>>)
          [] ins.operation = "Xor" -> mk("xor", <<r1, r1, r2>>)
          [] ins.operation = "Mov" -> mk("mov", <<r1, r2>>)
          [] ins.operation = "Call" -> mk("call", <<r1>>)
          [] ins.operation = "Push" -> mk("push", <<r1>>)
          [] ins.operation = "Pop" -> mk("pop", <<r1>>)
          [] ins.operation = "Nop" -> mk("nop", <<>>)
          [] ins.operation = "Ret" -> mk("ret", <<>>)
          [] OTHER -> Panic

(***************************************************************************)
(* RISC-V decoder (riscv.rs).                                               *)
(***************************************************************************)
RvIns(op, d, s1, s2, im, off, size) ==
    [operation |-> op, rd |-> d, rs1 |-> s1, rs2 |-> s2, rs3 |-> Nothing,
     imm |-> im, offset |-> off, ins_size |-> size]

Reg(r) == <<"Reg", r>>
ImmS32(v) == <<"ImmS32", v>>
ImmU32(v) == <<"ImmU32", v>>
ImmS16(v) == <<"ImmS16", v>>
ImmU16(v) == <<"ImmU16", v>>

rv_opcode(ins) == bv_val(bit_and(ins, u32_const(127), 32), 32)
rv_rd(ins) == bv_val(bit_and(shr(ins, 7, 32), u32_const(31), 32), 32)
rv_rs1(ins) == bv_val(bit_and(shr(ins, 15, 32), u32_const(31), 32), 32)
rv_rs2(ins) == bv_val(bit_and(shr(ins, 20, 32), u32_const(31), 32), 32)
funct3(ins) == bv_val(bit_and(shr(ins, 12, 32), u32_const(7), 32), 32)
funct7(ins) == bv_val(shr(ins, 25, 32), 32)
imm20(ins) == signed_val(sar(ins, 12, 32), 32)
shamt(ins) == bv_val(bit_and(shr(ins, 20, 32), u32_const(31), 32), 32)

jimm20(ins) ==
    signed_val(
        bit_or(bit_or(shl(bextr(ins, 31, 31, 32), 20, 32), shl(bextr(ins, 30, 21, 32), 1, 32), 32),
               bit_or(shl(bextr(ins, 20, 20, 32), 11, 32), shl(bextr(ins, 19, 12, 32), 12, 32), 32),
               32), 32)

branch(ins) ==
    signed_val(
        bit_or(bit_or(shl(bextr(ins, 31, 31, 32), 12, 32), shl(bextr(ins, 30, 25, 32), 5, 32), 32),
               bit_or(shl(bextr(ins, 11, 8, 32), 1, 32), shl(bextr(ins, 7, 7, 32), 11, 32), 32),
               32), 32)

imm12(ins) == signed_val(sar(ins, 20, 32), 32)

imm12_s(ins) ==
    signed_val(bit_or(shl(bextr_signed(ins, 31, 25, 32), 11, 32), bextr(ins, 11, 7, 32), 32), 32)

csr(ins) == bextr32(ins, 31, 20)

instr_op_rd_rs1_rs2(op, ins, off, ins_size) ==
    RvIns(op, Reg(rv_rd(ins)), Reg(rv_rs1(ins)), Reg(rv_rs2(ins)), Nothing, off, ins_size)

instr_op_rd_rs1_imm12(op, ins, off, ins_size) ==
    RvIns(op, Reg(rv_rd(ins)), Reg(rv_rs1(ins)), Nothing, ImmS32(imm12(ins)), off, ins_size)

instr_op_rs1_rs2_imm12_s(op, ins, off, ins_size) ==
    RvIns(op, Nothing, Reg(rv_rs1(ins)), Reg(rv_rs2(ins)), ImmS32(imm12_s(ins)), off, ins_size)

instr_op_rd_rs1_shamt(op, ins, off, ins_size) ==
    RvIns(op, Reg(rv_rd(ins)), Reg(rv_rs1(ins)), Nothing, ImmU32(shamt(ins)), off, ins_size)

instr_op_rd_imm20(op, ins, off) ==
    RvIns(op, Reg(rv_rd(ins)), Nothing, Nothing, ImmS32(imm20(ins)), off, 4)

instr_op_rd_jimm20(op, ins, off) ==
    RvIns(op, Reg(rv_rd(ins)), Nothing, Nothing, ImmS32(jimm20(ins)), off, 4)

instr_op_rs1_rs2_branch(op, ins, off) ==
    RvIns(op, Nothing, Reg(rv_rs1(ins)), Reg(rv_rs2(ins)), ImmS32(branch(ins)), off, 4)

instr_op_rs1_csr(op, ins, off) ==
    RvIns(op, Reg(rv_rd(ins)), Reg(rv_rs1(ins)), Nothing, ImmU32(csr(ins)), off, 4)

\* the system opcode's CSRRW row builds its instruction with Operation::Sd
disassemble_csrrw(ins, off) == instr_op_rs1_csr("Sd", ins, off)

disassemble_32(ins, off) ==
    LET opcode == rv_opcode(ins)
        f3 == funct3(ins)
        f7 == funct7(ins)
    IN  CASE opcode = 55 -> Some(instr_op_rd_imm20("Lui", ins, off))
          [] opcode = 23 -> Some(instr_op_rd_imm20("Auipc", ins, off))
          [] opcode = 111 -> Some(instr_op_rd_jimm20("Jal", ins, off))
          [] opcode = 103 -> Some(instr_op_rd_rs1_imm12("Jalr", ins, off, 4))
          [] opcode = 99 ->
               (CASE f3 = 0 -> Some(instr_op_rs1_rs2_branch("Beq", ins, off))
                  [] f3 = 1 -> Some(instr_op_rs1_rs2_branch("Bne", ins, off))
                  [] f3 = 4 -> Some(instr_op_rs1_rs2_branch("Blt", ins, off))
                  [] f3 = 5 -> Some(instr_op_rs1_rs2_branch("Bge", ins, off))
                  [] f3 = 6 -> Some(instr_op_rs1_rs2_branch("Bltu", ins, off))
                  [] f3 = 7 -> Some(instr_op_rs1_rs2_branch("Bgeu", ins, off))
                  [] OTHER -> None)
          [] opcode = 3 ->
               (CASE f3 = 0 -> Some(instr_op_rd_rs1_imm12("Lb", ins, off, 4))
                  [] f3 = 1 -> Some(instr_op_rd_rs1_imm12("Lh", ins, off, 4))
                  [] f3 = 2 -> Some(instr_op_rd_rs1_imm12("Lw", ins, off, 4))
                  [] f3 = 3 -> Some(instr_op_rd_rs1_imm12("Ld", ins, off, 4))
                  [] f3 = 4 -> Some(instr_op_rd_rs1_imm12("Lbu", ins, off, 4))
                  [] f3 = 5 -> Some(instr_op_rd_rs1_imm12("Lhu", ins, off, 4))
                  [] f3 = 6 -> Some(instr_op_rd_rs1_imm12("Lwu", ins, off, 4))
                  [] OTHER -> None)
          [] opcode = 35 ->
               (CASE f3 = 0 -> Some(instr_op_rs1_rs2_imm12_s("Sb", ins, off, 4))
                  [] f3 = 1 -> Some(instr_op_rs1_rs2_imm12_s("Sh", ins, off, 4))
                  [] f3 = 2 -> Some(instr_op_rs1_rs2_imm12_s("Sw", ins, off, 4))
                  [] f3 = 3 -> Some(instr_op_rs1_rs2_imm12_s("Sd", ins, off, 4))
                  [] OTHER -> None)
          [] opcode = 19 ->
               (CASE f3 = 0 -> Some(instr_op_rd_rs1_imm12("Addi", ins, off, 4))
                  [] f3 = 1 -> Some(instr_op_rd_rs1_shamt("Slli", ins, off, 4))
                  [] f3 = 2 -> Some(instr_op_rd_rs1_imm12("Slti", ins, off, 4))
                  [] f3 = 3 -> Some(instr_op_rd_rs1_imm12("Sltui", ins, off, 4))
                  [] f3 = 4 -> Some(instr_op_rd_rs1_imm12("Xori", ins, off, 4))
                  [] f3 = 5 /\ f7 = 0 -> Some(instr_op_rd_rs1_shamt("Srli", ins, off, 4))
                  [] f3 = 5 /\ f7 = 32 -> Some(instr_op_rd_rs1_shamt("Srai", ins, off, 4))
                  [] f3 = 6 -> Some(instr_op_rd_rs1_imm12("Ori", ins, off, 4))
                  [] f3 = 7 -> Some(instr_op_rd_rs1_imm12("Andi", ins, off, 4))
                  [] OTHER -> None)
          [] opcode = 27 ->
               (CASE f3 = 0 -> Some(instr_op_rd_rs1_imm12("Addiw", ins, off, 4))
                  [] f3 = 1 -> Some(instr_op_rd_rs1_shamt("Slliw", ins, off, 4))
                  [] f3 = 5 /\ f7 = 0 -> Some(instr_op_rd_rs1_shamt("Srliw", ins, off, 4))
                  [] f3 = 5 /\ f7 = 32 -> Some(instr_op_rd_rs1_shamt("Sraiw", ins, off, 4))
                  [] OTHER -> None)
          [] opcode = 51 ->
               (CASE f3 = 0 /\ f7 = 0 -> Some(instr_op_rd_rs1_rs2("Add", ins, off, 4))
                  [] f3 = 0 /\ f7 = 1 -> Some(instr_op_rd_rs1_rs2("Mul", ins, off, 4))
                  [] f3 = 0 /\ f7 = 32 -> Some(instr_op_rd_rs1_rs2("Sub", ins, off, 4))
                  [] f3 = 1 -> Some(instr_op_rd_rs1_rs2("Sll", ins, off, 4))
                  [] f3 = 2 -> Some(instr_op_rd_rs1_rs2("Slt", ins, off, 4))
                  [] f3 = 3 -> Some(instr_op_rd_rs1_rs2("Sltu", ins, off, 4))
                  [] f3 = 4 -> Some(instr_op_rd_rs1_rs2("Xor", ins, off, 4))
                  [] f3 = 5 /\ f7 = 0 -> Some(instr_op_rd_rs1_rs2("Srl", ins, off, 4))
                  [] f3 = 5 /\ f7 = 32 -> Some(instr_op_rd_rs1_rs2("Sra", ins, off, 4))
                  [] f3 = 6 -> Some(instr_op_rd_rs1_rs2("Or", ins, off, 4))
                  [] f3 = 7 -> Some(instr_op_rd_rs1_rs2("And", ins, off, 4))
                  [] OTHER -> None)
          [] opcode = 59 ->
               (CASE f3 = 0 /\ f7 = 0 -> Some(instr_op_rd_rs1_rs2("Addw", ins, off, 4))
                  [] f3 = 0 /\ f7 = 1 -> Some(instr_op_rd_rs1_rs2("Mulw", ins, off, 4))
                  [] f3 = 0 /\ f7 = 32 -> Some(instr_op_rd_rs1_rs2("Subw", ins, off, 4))
                  [] f3 = 1 -> Some(instr_op_rd_rs1_rs2("Sllw", ins, off, 4))
                  [] f3 = 5 /\ f7 = 0 -> Some(instr_op_rd_rs1_rs2("Srlw", ins, off, 4))
                  [] f3 = 5 /\ f7 = 32 -> Some(instr_op_rd_rs1_rs2("Sraw", ins, off, 4))
                  [] OTHER -> None)
          [] opcode = 115 ->
               (CASE f3 = 1 -> Some(disassemble_csrrw(ins, off))
                  [] OTHER -> None)
          [] OTHER -> None

\* compressed (16-bit) encodings
REG_ZERO == 0
REG_RA == 1
REG_SP == 2
REG_S0 == 8

or16(a, b) == bit_or(a, b, 16)
sh16(x, start, stop, n) == shl(bextr(x, start, stop, 16), n, 16)
u16_const(k) == bv_const(k, 16)

rd_rs2_p(ins) == bv_val(bit_and(shr(ins, 2, 16), u16_const(7), 16), 16)
rs1_p(ins) == bv_val(bit_and(shr(ins, 7, 16), u16_const(7), 16), 16)
c_rs2(ins) == bv_val(bit_and(shr(ins, 2, 16), u16_const(31), 16), 16)
c_rd(ins) == rv_rd(zext(ins, 16, 32))

c_uimm7(ins) == bv_val(or16(or16(sh16(ins, 6, 5, 2), sh16(ins, 12, 10, 3)), sh16(ins, 5, 4, 6)), 16)

c_imm6(ins) ==
    signed_val(or16(bextr(ins, 6, 2, 16), shl(bextr_signed(ins, 12, 11, 16), 4, 16)), 16)

c_uimm8sp(ins) ==
    bv_val(or16(or16(sh16(ins, 6, 4, 2), sh16(ins, 3, 2, 6)), sh16(ins, 12, 12, 5)), 16)

c_uimm8sp_s(ins) == bv_val(or16(sh16(ins, 12, 9, 2), sh16(ins, 8, 7, 6)), 16)

c_bimm9(ins) ==
    signed_val(or16(or16(or16(sh16(ins, 12, 12, 8), sh16(ins, 11, 10, 3)),
                         or16(sh16(ins, 6, 5, 6), sh16(ins, 4, 3, 1))),
                    sh16(ins, 2, 2, 5)), 16)

c_lui_imm(ins) ==
    bv_val(bit_or(shl(zext(bextr(ins, 12, 11, 16), 16, 32), 17, 32),
                  zext(sh16(ins, 6, 2, 12), 16, 32), 32), 32)

c_j_imm(ins) ==
    signed_val(or16(or16(or16(shl(bextr_signed(ins, 12, 12, 16), 11, 16), sh16(ins, 11, 11, 4)),
                         or16(sh16(ins, 10, 9, 8), sh16(ins, 8, 8, 10))),
                    or16(or16(sh16(ins, 7, 7, 6), sh16(ins, 6, 6, 7)),
                         or16(sh16(ins, 5, 3, 1), sh16(ins, 2, 2, 5)))), 16)

disassemble_c_lw(ins, off) ==
    RvIns("Lw", Reg(rd_rs2_p(ins) + REG_S0), Reg(rs1_p(ins) + REG_S0), Nothing,
          ImmU16(c_uimm7(ins)), off, 2)

disassemble_c_li(ins, off) ==
    RvIns("Li", Reg(c_rd(ins)), Nothing, Nothing, ImmS16(c_imm6(ins)), off, 2)

disassemble_c_lui(ins, off) ==
    RvIns("Lui", Reg(c_rd(ins)), Nothing, Nothing, ImmU32(c_lui_imm(ins)), off, 2)

\* C.SUB, C.XOR, C.OR, C.AND, C.SUBW, C.ADDW share one shape
disassemble_c_arith(op, ins, off) ==
    RvIns(op, Reg(rd_rs2_p(ins) + REG_S0), Reg(rd_rs2_p(ins) + REG_S0),
          Reg(rs1_p(ins) + REG_S0), Nothing, off, 2)

disassemble_c_addi(ins, off) ==
    RvIns("Addi", Reg(c_rd(ins)), Reg(c_rd(ins)), Nothing, ImmS16(c_imm6(ins)), off, 2)

\* a C.JR that writes the return address, as C.JALR does
disassemble_c_jr_links(ins, off) ==
    RvIns("Jalr", Reg(REG_RA), Reg(c_rd(ins)), Nothing, ImmS16(0), off, 2)

disassemble_c_jr(ins, off) ==
    RvIns("Jalr", Reg(REG_ZERO), Reg(c_rd(ins)), Nothing, ImmS16(0), off, 2)

disassemble_c_jalr(ins, off) ==
    RvIns("Jalr", Reg(REG_RA), Reg(c_rd(ins)), Nothing, ImmS16(0), off, 2)

disassemble_c_mv(ins, off) ==
    RvIns("Add", Reg(c_rd(ins)), Reg(REG_ZERO), Reg(c_rs2(ins)), Nothing, off, 2)

disassemble_c_add(ins, off) ==
    RvIns("Add", Reg(c_rd(ins)), Reg(c_rd(ins)), Reg(c_rs2(ins)), Nothing, off, 2)

disassemble_c_j(ins, off) ==
    RvIns("Jal", Reg(REG_ZERO), Nothing, Nothing, ImmS16(c_j_imm(ins)), off, 2)

disassemble_c_lwsp(ins, off) ==
    RvIns("Lw", Reg(c_rd(ins)), Reg(REG_SP), Nothing, ImmU16(c_uimm8sp(ins)), off, 2)

disassemble_c_swsp(ins, off) ==
    RvIns("Sw", Nothing, Reg(c_rs2(ins)), Reg(REG_SP), ImmU16(c_uimm8sp_s(ins)), off, 2)

disassemble_c_beqz(ins, off) ==
    RvIns("Beq", Nothing, Reg(rs1_p(ins) + REG_S0), Reg(REG_ZERO), ImmS16(c_bimm9(ins)), off, 2)

disassemble_c_bnez(ins, off) ==
    RvIns("Bne", Nothing, Reg(rs1_p(ins) + REG_S0), Reg(REG_ZERO), ImmS16(c_bimm9(ins)), off, 2)

disassemble_16(ins, off) ==
    LET op == bv_val(bit_and(ins, u16_const(3), 16), 16)
        funct == bv_val(bit_and(shr(ins, 13, 16), u16_const(7), 16), 16)
    IN  CASE op = 0 /\ funct = 2 -> Some(disassemble_c_lw(ins, off))
          [] op = 1 /\ funct = 0 -> Some(disassemble_c_addi(ins, off))
          [] op = 1 /\ funct = 2 -> Some(disassemble_c_li(ins, off))
          [] op = 1 /\ funct = 3 -> Some(disassemble_c_lui(ins, off))
          [] op = 1 /\ funct = 4 ->
               (IF bextr16(ins, 11, 10) = 3 THEN
                    CASE bextr16(ins, 12, 12) = 0 /\ bextr16(ins, 6, 5) = 0 ->
                           Some(disassemble_c_arith("Sub", ins, off))
                      [] bextr16(ins, 12, 12) = 0 /\ bextr16(ins, 6, 5) = 1 ->
                           Some(disassemble_c_arith("Xor", ins, off))
                      [] bextr16(ins, 12, 12) = 0 /\ bextr16(ins, 6, 5) = 2 ->
                           Some(disassemble_c_arith("Or", ins, off))
                      [] bextr16(ins, 12, 12) = 0 /\ bextr16(ins, 6, 5) = 3 ->
                           Some(disassemble_c_arith("And", ins, off))
                      [] bextr16(ins, 12, 12) = 1 /\ bextr16(ins, 6, 5) = 0 ->
                           Some(disassemble_c_arith("Subw", ins, off))
                      [] bextr16(ins, 12, 12) = 1 /\ bextr16(ins, 6, 5) = 1 ->
                           Some(disassemble_c_arith("Addw", ins, off))
                      [] OTHER -> None
                ELSE None)
          [] op = 1 /\ funct = 5 -> Some(disassemble_c_j(ins, off))
          [] op = 1 /\ funct = 6 -> Some(disassemble_c_beqz(ins, off))
          [] op = 1 /\ funct = 7 -> Some(disassemble_c_bnez(ins, off))
          [] op = 2 /\ funct = 2 -> Some(disassemble_c_lwsp(ins, off))
          [] op = 2 /\ funct = 4 ->
               (CASE bextr16(ins, 12, 11) = 0 ->
                       (IF c_rs2(ins) = 0 THEN Some(disassemble_c_jr(ins, off))
                        ELSE Some(disassemble_c_mv(ins, off)))
                  [] bextr16(ins, 12, 11) = 1 ->
                       (IF c_rs2(ins) = 0 THEN Some(disassemble_c_jalr(ins, off))
                        ELSE Some(disassemble_c_add(ins, off)))
                  [] OTHER -> None)
          [] op = 2 /\ funct = 6 -> Some(disassemble_c_swsp(ins, off))
          [] OTHER -> None

\* both slices are bounds-checked: bytes[offset..offset+2], then
\* bytes[offset..offset+4] once the low two bits say "32-bit"
disassemble_instruction(bs, off) ==
    IF off + 2 > Len(bs) THEN Panic
    ELSE LET ins == u16_from_le_bytes(bs, off)
         IN  IF ins[0] = 1 /\ ins[1] = 1 THEN
                 IF off + 4 > Len(bs) THEN Panic
                 ELSE disassemble_32(u32_from_le_bytes(bs, off), off)
             ELSE disassemble_16(ins, off)

\* an Unknown that always claims the compressed width
RvUnknownNarrow(off, size) == RvIns("Unknown", Nothing, Nothing, Nothing, Nothing, off, 2)

RvUnknown(off, size) == RvIns("Unknown", Nothing, Nothing, Nothing, Nothing, off, size)

(***************************************************************************)
(* The expression IR (decomp.rs).  An Expr is a tagged tuple.               *)
(***************************************************************************)
OP_ADD == 0
OP_SUB == 1
OP_MUL == 2
OP_AND == 3
OP_OR == 4
OP_XOR == 5
OP_LT == 10
OP_GTE == 13
OP_EQ == 14
OP_NEQ == 15

expr_register(r) == <<"Register", r>>
expr_constant(i) == <<"Constant", i>>
expr_binary(op, lhs, rhs) == <<"Binary", op, lhs, rhs>>
expr_dereference(size, rhs) == <<"Dereference", size, rhs>>
expr_store(dest, src) == <<"Store", dest, src>>
expr_group(group) == <<"Group", group>>
expr_call(callee) == <<"Call", callee>>
expr_goto(jmp) == <<"Goto", jmp>>
expr_nop == <<"Nop">>
expr_ret == <<"Return">>
expr_if(cond, then) == <<"If", cond, then>>
expr_special(name, args) == <<"Special", name, args>>
expr_label(name) == <<"Label", name>>

(***************************************************************************)
(* RISC-V lifting (riscv.rs, Operand::into_expr and Instruction::into_expr) *)
(***************************************************************************)
REG_NAMES ==
    <<"Zero", "ra", "sp", "gp", "tp", "t0", "t1", "t2", "s0", "s1",
      "a0", "a1", "a2", "a3", "a4", "a5", "a6", "a7",
      "s2", "s3", "s4", "s5", "s6", "s7", "s8", "s9", "s10", "s11",
      "t3", "t4", "t5", "t6">>

register_name(r) == IF r < Len(REG_NAMES) THEN REG_NAMES[r + 1] ELSE "?"

is_zero(operand) == operand[1] # "Nothing" /\ operand[2] = 0

\* a test that takes any register for the one asked about
is_register_any(operand, reg) == operand[1] = "Reg"

is_register(operand, reg) == operand[1] = "Reg" /\ operand[2] = reg

operand_into_expr(operand) ==
    CASE operand[1] = "Reg" -> expr_register(register_name(operand[2]))
      [] operand[1] \in {"ImmU16", "ImmU32", "ImmS16", "ImmS32"} -> expr_constant(operand[2])
      [] OTHER -> expr_nop

pc_plus_imm(ins) ==
    expr_binary(OP_ADD, expr_register("pc"), operand_into_expr(ins.imm))

rv_binary_ops ==
    [Add |-> OP_ADD, Sub |-> OP_SUB, Xor |-> OP_XOR, And |-> OP_AND, Or |-> OP_OR,
     Mul |-> OP_MUL, Addi |-> OP_ADD, Xori |-> OP_XOR, Ori |-> OP_OR, Andi |-> OP_AND]

rv_access_size == [Lb |-> 1, Lh |-> 2, Lw |-> 4, Ld |-> 8, Sb |-> 1, Sh |-> 2, Sw |-> 4, Sd |-> 8]

rv_branch_ops == [Beq |-> OP_EQ, Bne |-> OP_NEQ, Blt |-> OP_LT, Bge |-> OP_GTE]

rv_into_expr(ins) ==
    LET op == ins.operation
        rd == operand_into_expr(ins.rd)
        rs1 == operand_into_expr(ins.rs1)
        rs2 == operand_into_expr(ins.rs2)
        imm == operand_into_expr(ins.imm)
    IN  CASE op \in {"Add", "Sub", "Xor", "And", "Or", "Mul"} ->
               expr_store(rd, expr_binary(rv_binary_ops[op], rs1, rs2))
          [] op \in {"Addi", "Xori", "Ori", "Andi"} ->
               expr_store(rd, expr_binary(rv_binary_ops[op], rs1, imm))
          \* the zero-displacement row of Lb names rs2, the other loads rs1
          [] op = "Lb" ->
               (IF is_zero(ins.imm) THEN expr_store(rd, expr_dereference(1, rs2))
                ELSE expr_store(rd, expr_dereference(1, expr_binary(OP_ADD, rs1, imm))))
          [] op \in {"Lh", "Lw", "Ld"} ->
               (IF is_zero(ins.imm) THEN expr_store(rd, expr_dereference(rv_access_size[op], rs1))
                ELSE expr_store(rd, expr_dereference(rv_access_size[op],
                                                     expr_binary(OP_ADD, rs1, imm))))
          [] op \in {"Sb", "Sh", "Sw", "Sd"} ->
               (IF is_zero(ins.imm) THEN expr_store(expr_dereference(rv_access_size[op], rs2), rs1)
                ELSE expr_store(expr_dereference(rv_access_size[op],
                                                 expr_binary(OP_ADD, rs2, imm)), rs1))
          [] op \in {"Li", "Lui"} -> expr_store(rd, imm)
          [] op = "Auipc" ->
               expr_store(rd, expr_binary(OP_ADD,
                                  expr_binary(OP_AND, expr_register("pc"),
                                              expr_constant(-1048576)), imm))
          [] op = "Jal" ->
               (IF is_zero(ins.rd) THEN expr_goto(pc_plus_imm(ins))
                ELSE IF is_register(ins.rd, REG_RA) THEN expr_call(pc_plus_imm(ins))
                ELSE expr_special("jal", <<rd, pc_plus_imm(ins)>>))
          [] op = "Jalr" ->
               (IF is_zero(ins.rd) THEN
                    (IF is_register(ins.rs1, REG_RA) THEN expr_ret ELSE expr_goto(rs1))
                ELSE IF is_register(ins.rd, REG_RA) THEN expr_call(rs1)
                ELSE expr_special("jal", <<rd, rs1>>))
          [] op \in {"Beq", "Bne"} ->
               expr_if(expr_binary(rv_branch_ops[op], rs1,
                                   IF is_zero(ins.rs2) THEN expr_constant(0) ELSE rs2),
                       expr_goto(pc_plus_imm(ins)))
          [] op \in {"Blt", "Bge"} ->
               expr_if(expr_binary(rv_branch_ops[op], rs1, rs2), expr_goto(pc_plus_imm(ins)))
          [] OTHER -> expr_nop

(***************************************************************************)
(* x86 lifting.  The lowering of the common instruction struct to an Expr   *)
(* follows the documented x86 table: MOV, ADD/SUB/AND/OR/XOR, PUSH, POP,    *)
(* CALL, RET, NOP.                                                          *)
(***************************************************************************)
x86_binary_ops == [add |-> OP_ADD, sub |-> OP_SUB, and |-> OP_AND, or |-> OP_OR, xor |-> OP_XOR]

x86_operand_expr(operand) ==
    CASE operand[1] = "Register" -> expr_register(operand[2])
      [] operand[1] = "Immediate" -> expr_constant(operand[2])
      [] operand[1] = "Memory" ->
           (IF operand[4] = 0 THEN expr_dereference(operand[5], expr_register(operand[2]))
            ELSE expr_dereference(operand[5],
                     expr_binary(OP_ADD, expr_register(operand[2]), expr_constant(operand[4]))))
      [] OTHER -> expr_nop

x86_into_expr(ins) ==
    LET opnd(i) == x86_operand_expr(ins.operands[i])
        rsp == expr_register("rsp")
    IN  CASE ins.opcode = "mov" -> expr_store(opnd(1), opnd(2))
          [] ins.opcode \in DOMAIN x86_binary_ops ->
               expr_store(opnd(1), expr_binary(x86_binary_ops[ins.opcode], opnd(2), opnd(3)))
          [] ins.opcode = "push" ->
               expr_group(<<expr_store(rsp, expr_binary(OP_SUB, rsp, expr_constant(8))),
                            expr_store(expr_dereference(8, rsp), opnd(1))>>)
          [] ins.opcode = "pop" ->
               expr_group(<<expr_store(opnd(1), expr_dereference(8, rsp)),
                            expr_store(rsp, expr_binary(OP_ADD, rsp, expr_constant(8)))>>)
          [] ins.opcode = "call" -> expr_call(opnd(1))
          [] ins.opcode = "ret" -> expr_ret
          [] OTHER -> expr_nop

(***************************************************************************)
(* ChangeList and ExprBuilder (decomp.rs).  change_lists is the HashMap     *)
(* from register name to ChangeList: a function whose domain grows.         *)
(***************************************************************************)
NewChangeList == [uses |-> <<>>, stores |-> <<>>, loads |-> <<>>, last_store |-> 0, last_load |-> 0]

add_use(cl, id) == [cl EXCEPT !.uses = Append(@, id)]

\* add_store that forgets to record the use
add_store_without_use(cl, id) == [cl EXCEPT !.stores = Append(@, id), !.last_store = id]

add_store(cl, id) == add_use([cl EXCEPT !.stores = Append(@, id), !.last_store = id], id)

add_load(cl, id) == add_use([cl EXCEPT !.loads = Append(@, id), !.last_load = id], id)

add_change_list_if_not_created(eb, s) ==
    IF s \in DOMAIN eb.change_lists THEN eb
    ELSE [eb EXCEPT !.change_lists =
              [n \in (DOMAIN eb.change_lists) \cup {s} |->
                  IF n = s THEN NewChangeList ELSE eb.change_lists[n]]]

add_register_store(eb, s) ==
    LET created == add_change_list_if_not_created(eb, s)
    IN  [created EXCEPT !.change_lists[s] = add_store(@, created.next_id)]

add_register_load(eb, s) ==
    LET created == add_change_list_if_not_created(eb, s)
    IN  [created EXCEPT !.change_lists[s] = add_load(@, created.next_id)]

RECURSIVE create_uses_in_expr(_, _)
RECURSIVE create_uses_in_group(_, _)
create_uses_in_group(eb, group) ==
    IF group = <<>> THEN eb
    ELSE create_uses_in_group(create_uses_in_expr(eb, Head(group)), Tail(group))

create_uses_in_expr(eb, expr) ==
    CASE expr[1] = "Store" ->
           LET stored == IF expr[2][1] = "Register" THEN add_register_store(eb, expr[2][2])
                         ELSE eb
           IN  IF expr[3][1] = "Register" THEN add_register_load(stored, expr[3][2])
               ELSE stored
      [] expr[1] = "Group" -> create_uses_in_group(eb, expr[2])
      [] OTHER -> eb

\* the listing's machine picks the lowering
into_expr(mach, ins) == IF mach = "x86" THEN x86_into_expr(ins) ELSE rv_into_expr(ins)

decomp_instruction(eb, mach, ins) ==
    LET expr == into_expr(mach, ins)
    IN  [expr_builder |-> create_uses_in_expr(eb, expr), expr |-> expr]

(***************************************************************************)
(* prog.rs: the symbols of a section, in the HashMap's iteration order.     *)
(***************************************************************************)
SymbolTables == {[n \in S |-> SymbolAddrs[n]] : S \in SUBSET (DOMAIN SymbolAddrs)}

Orderings(S) ==
    {order \in [1..Cardinality(S) -> S] : \A x \in S : \E i \in 1..Cardinality(S) : order[i] = x}

get_symbols_in_section(table, start, stop) ==
    Orderings({<<table[k], k>> : k \in {n \in DOMAIN table : table[n] >= start /\ table[n] < stop}})

(***************************************************************************)
(* dis.rs: InstructionListing::instruction_vec.  Rv and X86 listings are    *)
(* converted element by element, every other listing gives the empty Vec.   *)
(***************************************************************************)
instruction_vec(mach, listing) ==
    CASE mach = "riscv" -> Some(listing)
      [] mach = "x86" ->
           (IF \E i \in 1..Len(listing) : is_panic(x86_into(listing[i])) THEN Panic
            ELSE Some([i \in 1..Len(listing) |-> unwrap(x86_into(listing[i]))]))
      [] OTHER -> Some(<<>>)

(***************************************************************************)
(* dis.rs: InstructionListing::print, the names it prints as labels before  *)
(* one instruction.  The X86 row prints no labels.                          *)
(***************************************************************************)
printed_labels(mach, address, syms, ins) ==
    IF mach \in {"riscv", "arm"}
    THEN {syms[i][2] : i \in {j \in 1..Len(syms) : syms[j][1] = address + ins.offset}}
    ELSE {}

(***************************************************************************)
(* decomp.rs: the body of the 'instr_loop of decomp_disassembly.            *)
(***************************************************************************)
matching_symbols(syms, instr) == {i \in 1..Len(syms) : syms[i][1] = instr.offset}

first_matching_symbol(syms, instr) ==
    syms[CHOOSE i \in matching_symbols(syms, instr) :
             \A j \in matching_symbols(syms, instr) : i <= j]

\* a label that takes no statement id
label_entry_keeps_id(eb, list, symbol) ==
    [expr_list |-> Append(list, expr_label(symbol[2])), expr_builder |-> eb]

label_entry(eb, list, symbol) ==
    [expr_list |-> Append(list, expr_label(symbol[2])),
     expr_builder |-> [eb EXCEPT !.next_id = @ + 1]]

instr_entry(eb, list, mach, instr) ==
    LET lifted == decomp_instruction(eb, mach, instr)
    IN  [expr_list |-> Append(list, lifted.expr),
         expr_builder |-> [lifted.expr_builder EXCEPT !.next_id = @ + 1]]

instr_loop_body(eb, list, mach, syms, instr) ==
    IF matching_symbols(syms, instr) # {}
    THEN label_entry(eb, list, first_matching_symbol(syms, instr))
    ELSE instr_entry(eb, list, mach, instr)

(***************************************************************************)
(* The state machine: one section is disassembled by its machine's driver   *)
(* and the listing is then lifted by decomp_disassembly.                    *)
(***************************************************************************)
VARIABLES
    machine,       \* program.machine_type
    addr,          \* section.addr
    bytes,         \* section.bytes
    symbol_table,  \* program.symbol_table: name -> address
    pc,            \* "dis", "dis_done", "dis_panic", "decomp", "lift_panic", "done"
    offset,        \* the driver's offset
    instrs,        \* the driver's instruction list
    symbols,       \* decomp_disassembly: the Vec of (address, name)
    lift_instrs,   \* decomp_disassembly: what is left of instruction_vec()
    expr_list,     \* decomp_disassembly: the IR list
    expr_builder,  \* ExprBuilder {change_lists, next_id}
    fn_call,       \* a single function under test and its arguments
    fn_result      \* what that call returned

vars == <<machine, addr, bytes, symbol_table, pc, offset, instrs, symbols, lift_instrs,
          expr_list, expr_builder, fn_call, fn_result>>

fn_vars == <<fn_call, fn_result>>

program_vars == <<machine, addr, bytes, symbol_table>>

decomp_vars == <<symbols, lift_instrs, expr_list, expr_builder>>

\* a run of REX.W prefixes that takes the u8 ins_size to its last value
RexRun == [i \in 1..(Pow2(U8Bits) - 1) |-> OPCODE_REX_W]

SectionBytes(mach) ==
    CASE mach = "arm" -> SeqsUpTo(ArmBytes, MaxArmLen)
      [] mach = "x86" -> SeqsUpTo(X86Bytes, MaxX86Len)
                           \cup {RexRun \o tail : tail \in SeqsUpTo(RunTailBytes, MaxRunTail) \ {<<>>}}
      [] mach = "riscv" -> SeqsUpTo(RvBytes, MaxRvLen)

Init ==
    /\ machine \in {"arm", "x86", "riscv"}
    /\ addr \in SectionAddrs
    /\ bytes \in SectionBytes(machine)
    /\ symbol_table \in SymbolTables
    /\ pc = "dis"
    /\ offset = 0
    /\ instrs = <<>>
    /\ symbols = <<>>
    /\ lift_instrs = <<>>
    /\ expr_list = <<>>
    /\ expr_builder = [change_lists |-> [n \in {} |-> NewChangeList], next_id |-> 1]
    /\ fn_call = <<"none">>
    /\ fn_result = <<"none">>

\* the while condition of each driver
loop_condition(mach, bs, off) ==
    IF mach = "riscv" THEN off + 2 <= Len(bs) ELSE off < Len(bs)

\* one iteration of the while loop of disassemble_arm
disassemble_arm ==
    /\ machine = "arm" /\ pc = "dis"
    /\ loop_condition(machine, bytes, offset)
    /\ \E res \in {disassemble_ins(bytes, offset, addr)} :
           IF is_panic(res)
           THEN pc' = "dis_panic" /\ UNCHANGED <<offset, instrs>>
           ELSE /\ pc' = "dis"
                /\ offset' = offset + (IF is_some(res) THEN unwrap(res).ins_size ELSE 4)
                /\ instrs' = Append(instrs, IF is_some(res) THEN unwrap(res)
                                            ELSE ArmUnknown(offset))
    /\ UNCHANGED <<fn_vars, program_vars, decomp_vars>>

\* one iteration of the while loop of disassemble_x86; the build's overflow
\* checks are either on or off.  MaxStall caps the iterations that leave
\* offset where it was.
disassemble_x86 ==
    /\ machine = "x86" /\ pc = "dis"
    /\ loop_condition(machine, bytes, offset)
    /\ Len(instrs) < offset + MaxStall
    /\ \E checked \in BOOLEAN :
       \E res \in {disassemble_x86_instruction(bytes, offset, 0, checked)} :
             IF is_panic(res)
             THEN pc' = "dis_panic" /\ UNCHANGED <<offset, instrs>>
             ELSE /\ pc' = "dis"
                  /\ offset' = offset + (IF is_some(res) THEN unwrap(res).ins_size ELSE 1)
                  /\ instrs' = Append(instrs, IF is_some(res) THEN unwrap(res)
                                              ELSE X86Unknown(offset))
    /\ UNCHANGED <<fn_vars, program_vars, decomp_vars>>

\* one iteration of the while loop of disassemble_riscv
disassemble_riscv ==
    /\ machine = "riscv" /\ pc = "dis"
    /\ loop_condition(machine, bytes, offset)
    /\ \E res \in {disassemble_instruction(bytes, offset)} :
       LET wide == offset + 4 <= Len(bytes)
                     /\ bextr32(u32_from_le_bytes(bytes, offset), 1, 0) = 3
       IN  IF is_panic(res)
           THEN pc' = "dis_panic" /\ UNCHANGED <<offset, instrs>>
           ELSE /\ pc' = "dis"
                /\ offset' = offset + (IF is_some(res) THEN unwrap(res).ins_size
                                       ELSE IF wide THEN 4 ELSE 2)
                /\ instrs' = Append(instrs, IF is_some(res) THEN unwrap(res)
                                            ELSE RvUnknown(offset, IF wide THEN 4 ELSE 2))
    /\ UNCHANGED <<fn_vars, program_vars, decomp_vars>>

\* the while condition fails: the driver returns its listing
driver_return ==
    /\ pc = "dis"
    /\ ~loop_condition(machine, bytes, offset)
    /\ pc' = "dis_done"
    /\ UNCHANGED <<fn_vars, program_vars, offset, instrs, decomp_vars>>

\* decomp_disassembly up to its loop: instruction_vec(), the builder, the symbols
decomp_disassembly ==
    /\ pc = "dis_done"
    /\ \E vec \in {instruction_vec(machine, instrs)} :
           IF is_panic(vec)
           THEN pc' = "lift_panic" /\ UNCHANGED decomp_vars
           ELSE /\ pc' = "decomp"
                /\ lift_instrs' = unwrap(vec)
                /\ expr_list' = <<>>
                /\ expr_builder' = [change_lists |-> [n \in {} |-> NewChangeList], next_id |-> 1]
                /\ symbols' \in get_symbols_in_section(symbol_table, addr, addr + Len(bytes))
    /\ UNCHANGED <<fn_vars, program_vars, offset, instrs>>

\* one iteration of 'instr_loop
instr_loop ==
    /\ pc = "decomp"
    /\ lift_instrs # <<>>
    /\ \E after \in {instr_loop_body(expr_builder, expr_list, machine, symbols,
                                       Head(lift_instrs))} :
           /\ expr_list' = after.expr_list
           /\ expr_builder' = after.expr_builder
    /\ lift_instrs' = Tail(lift_instrs)
    /\ UNCHANGED <<fn_vars, program_vars, pc, offset, instrs, symbols>>

\* the loop is over: decomp_disassembly returns expr_list
decomp_return ==
    /\ pc = "decomp"
    /\ lift_instrs = <<>>
    /\ pc' = "done"
    /\ UNCHANGED <<fn_vars, program_vars, offset, instrs, decomp_vars>>

Next ==
    \/ disassemble_arm
    \/ disassemble_x86
    \/ disassemble_riscv
    \/ driver_return
    \/ decomp_disassembly
    \/ instr_loop
    \/ decomp_return

Spec == Init /\ [][Next]_vars

(***************************************************************************)
(* What the claims are stated with.                                         *)
(***************************************************************************)
RECURSIVE SumSizes(_, _)
\* the sum of ins_size over the first n entries of a listing
SumSizes(list, n) == IF n = 0 THEN 0 ELSE SumSizes(list, n - 1) + list[n].ins_size

IsUnknown(ins) ==
    IF "opcode" \in DOMAIN ins THEN ins.opcode = "Unknown" ELSE ins.operation = "Unknown"

\* the driver is about to run its loop body
AtLoopBody == pc = "dis" /\ loop_condition(machine, bytes, offset)

\* the halfword at offset announces a 32-bit RISC-V encoding
WideEncodingAt(bs, off) == bs[off + 1] % 4 = 3

\* what the machine's decoder gives at the current offset
DecodeResult(checked) ==
    CASE machine = "arm" -> disassemble_ins(bytes, offset, addr)
      [] machine = "x86" -> disassemble_x86_instruction(bytes, offset, 0, checked)
      [] machine = "riscv" -> disassemble_instruction(bytes, offset)

DecoderGivesNone == \E checked \in BOOLEAN : DecodeResult(checked) = None

DefaultWidth ==
    CASE machine = "arm" -> 4
      [] machine = "x86" -> 1
      [] machine = "riscv" -> IF WideEncodingAt(bytes, offset) THEN 4 ELSE 2

MinAdvance == CASE machine = "arm" -> 4 [] machine = "x86" -> 1 [] machine = "riscv" -> 2

\* instrs' is instrs with exactly one Unknown of the given place and width added
OneUnknownAppended(off, width) ==
    /\ Len(instrs') = Len(instrs) + 1
    /\ SubSeq(instrs', 1, Len(instrs)) = instrs
    /\ IsUnknown(instrs'[Len(instrs')])
    /\ instrs'[Len(instrs')].offset = off
    /\ instrs'[Len(instrs')].ins_size = width

IsPrefix(a, b) == Len(a) <= Len(b) /\ SubSeq(b, 1, Len(a)) = a

NonDecreasing(ids) == \A i \in 1..(Len(ids) - 1) : ids[i] <= ids[i + 1]

Count(ids, id) == Cardinality({i \in 1..Len(ids) : ids[i] = id})

LastOrZero(ids) == IF ids = <<>> THEN 0 ELSE ids[Len(ids)]

ChangeListOk(cl) ==
    /\ NonDecreasing(cl.stores) /\ NonDecreasing(cl.loads) /\ NonDecreasing(cl.uses)
    /\ cl.last_store = LastOrZero(cl.stores)
    /\ cl.last_load = LastOrZero(cl.loads)
    /\ Len(cl.uses) = Len(cl.stores) + Len(cl.loads)
    /\ \A id \in 1..expr_builder.next_id :
          Count(cl.uses, id) = Count(cl.stores, id) + Count(cl.loads, id)

ChangeListsOk == \A r \in DOMAIN expr_builder.change_lists : ChangeListOk(expr_builder.change_lists[r])

ChangeListsOnlyGrow ==
    \A r \in DOMAIN expr_builder.change_lists :
        /\ r \in DOMAIN expr_builder'.change_lists
        /\ IsPrefix(expr_builder.change_lists[r].uses, expr_builder'.change_lists[r].uses)
        /\ IsPrefix(expr_builder.change_lists[r].stores, expr_builder'.change_lists[r].stores)
        /\ IsPrefix(expr_builder.change_lists[r].loads, expr_builder'.change_lists[r].loads)

(***************************************************************************)
(* The claims.                                                              *)
(***************************************************************************)

\* C1: whenever a driver has returned its listing, the ins_size values of
\* the listing sum to the length of the section's bytes, whatever the length.
C1_SizesCoverSection == pc = "dis_done" => SumSizes(instrs, Len(instrs)) = Len(bytes)

\* C2: in every listing a driver is building or has built, each entry's
\* stored offset is the sum of the ins_size of the entries before it (so the
\* first is 0), for decoded and Unknown entries and for every section.addr.
C2_OffsetsArePrefixSums ==
    \A i \in 1..Len(instrs) : instrs[i].offset = SumSizes(instrs, i - 1)

\* C3: every iteration of a driver loop moves offset forward, by at least
\* 1 on x86, at least 2 on RISC-V and exactly 4 on ARM.
C3_EveryIterationAdvances ==
    [][(AtLoopBody /\ instrs' # instrs) =>
          /\ offset' >= offset + MinAdvance
          /\ machine = "arm" => offset' = offset + 4]_vars

\* C4: when the decoder gives no instruction at the current offset, the
\* iteration appends exactly one Unknown with that offset and the machine's
\* default width (ARM 4, x86 1, RISC-V 4 if the halfword's low bits are 11,
\* else 2), and the loop goes on at offset plus that width.
C4_UnknownOnDecoderNone ==
    [][(AtLoopBody /\ DecoderGivesNone) =>
          /\ OneUnknownAppended(offset, DefaultWidth)
          /\ offset' = offset + DefaultWidth
          /\ pc' = "dis"]_vars

\* a RISC-V listing whose first entry is an Unknown of 2 bytes at offset 0
\* and whose second entry was decoded at offset 2
C4_Witness ==
    /\ machine = "riscv" /\ pc = "dis"
    /\ Len(instrs) = 2
    /\ IsUnknown(instrs[1]) /\ instrs[1].offset = 0 /\ instrs[1].ins_size = 2
    /\ instrs[2].offset = 2

\* C5: a RISC-V iteration that finds a 32-bit encoding (low bits 11) with
\* fewer than 4 bytes left does not abort: it appends an Unknown of 2 bytes
\* and goes on 2 bytes further.
C5_TruncatedWideIsUnknown2 ==
    [][(machine = "riscv" /\ AtLoopBody /\ WideEncodingAt(bytes, offset)
           /\ offset + 4 > Len(bytes)) =>
          /\ OneUnknownAppended(offset, 2)
          /\ offset' = offset + 2
          /\ pc' = "dis"]_vars

\* C6: the ARM driver, with fewer than 4 bytes left at offset, returns the
\* listing it has without adding to it and without a fault; a section of
\* 3 bytes gives the empty listing.
C6_ArmStopsOnShortTail ==
    [][(machine = "arm" /\ pc = "dis" /\ Len(bytes) - offset < 4) =>
          /\ pc' = "dis_done"
          /\ instrs' = instrs]_vars

\* C7: lifting a RISC-V or x86 listing never aborts, and the finished IR
\* list has one entry per instruction of the listing.
C7_LiftNeverAborts ==
    /\ pc # "lift_panic"
    /\ (pc = "done" /\ machine \in {"riscv", "x86"}) => Len(expr_list) = Len(instrs)

\* C8: an iteration of the lifting loop whose instruction has a symbol at
\* its offset appends the Label and then the instruction's own expression.
C8_LabelThenInstruction ==
    [][(pc = "decomp" /\ lift_instrs # <<>>
           /\ matching_symbols(symbols, Head(lift_instrs)) # {}) =>
          /\ Len(expr_list') = Len(expr_list) + 2
          /\ SubSeq(expr_list', 1, Len(expr_list)) = expr_list
          /\ expr_list'[Len(expr_list) + 1][1] = "Label"
          /\ expr_list'[Len(expr_list) + 2] = into_expr(machine, Head(lift_instrs))]_vars

\* C9: next_id is 1 plus the number of entries appended to the IR list so
\* far; every entry, Label and Nop included, takes exactly one id.
C9_NextIdCountsEntries == expr_builder.next_id = 1 + Len(expr_list)

\* a finished lift whose IR list is a Label followed by a Nop
C9_Witness ==
    /\ pc = "done"
    /\ Len(expr_list) = 2
    /\ expr_list[1][1] = "Label"
    /\ expr_list[2] = expr_nop
    /\ expr_builder.next_id = 3

\* C10: in every state of the lift each register's change list has stores,
\* loads and uses in non-decreasing order, last_store and last_load equal
\* to the last element of their list (0 when empty), and uses holding each
\* id as often as stores and loads together; every step only appends.
C10_ChangeListsKept == [][ChangeListsOk /\ ChangeListsOk' /\ ChangeListsOnlyGrow]_vars

\* a finished lift in which one register was stored to and later loaded from
C10_Witness ==
    /\ pc = "done"
    /\ \E r \in DOMAIN expr_builder.change_lists :
          LET cl == expr_builder.change_lists[r]
          IN  /\ Len(cl.stores) >= 1 /\ Len(cl.loads) >= 1
              /\ cl.last_store < cl.last_load
              /\ Len(cl.uses) >= 2

RECURSIVE LiftedList(_, _, _, _, _)
\* the IR list 'instr_loop ends with, for one order of the symbols
LiftedList(eb, list, mach, syms, ins_list) ==
    IF ins_list = <<>> THEN list
    ELSE LET after == instr_loop_body(eb, list, mach, syms, Head(ins_list))
         IN  LiftedList(after.expr_builder, after.expr_list, mach, syms, Tail(ins_list))

\* C11: the IR list of a program does not depend on the order in which the
\* symbol table hands out its symbols: any two orders of the section's
\* symbols, two symbols at one address included, give the same list.
C11_LiftIsDeterministic ==
    (pc = "dis_done" /\ is_some(instruction_vec(machine, instrs))) =>
        \A s1, s2 \in get_symbols_in_section(symbol_table, addr, addr + Len(bytes)) :
            LiftedList([change_lists |-> [n \in {} |-> NewChangeList], next_id |-> 1], <<>>,
                       machine, s1, unwrap(instruction_vec(machine, instrs)))
            = LiftedList([change_lists |-> [n \in {} |-> NewChangeList], next_id |-> 1], <<>>,
                         machine, s2, unwrap(instruction_vec(machine, instrs)))

(***************************************************************************)
(* Single calls: one function of the program applied to one argument list.  *)
(* fn_call is the call, fn_result what it returned.                         *)
(***************************************************************************)
FnWords(W) ==
    {[i \in 0..(W - 1) |-> 0], [i \in 0..(W - 1) |-> 1],
     [i \in 0..(W - 1) |-> i % 2], [i \in 0..(W - 1) |-> (i + 1) % 2],
     [i \in 0..(W - 1) |-> IF i \in {0, W - 1} THEN 1 ELSE 0]}

BextrCallsOf(W) ==
    {c \in {<<"bextr", W, x, start, stop>> : x \in FnWords(W), start \in 0..(W - 1), stop \in 0..(W - 1)} :
        c[5] <= c[4]}

BextrCalls == BextrCallsOf(16) \cup BextrCallsOf(32)

MachineTypes == {"arm", "x86", "amd64", "riscv", "unknown"}

SectionNames == {".text", "file", ".data"}

ProgramCalls ==
    {<<"disassemble_program", m, names>> : m \in MachineTypes, names \in (SUBSET SectionNames) \ {{}}}

\* x86 byte strings: an optional REX.W, one of the opcodes 0x83, 0x85, 0x89,
\* 0x8B, a ModR/M byte (0xC0 and 0xE5: mod 11; 0x45: mod 01; 0x03: mod 00)
\* and one more byte; and CALL rel32 at offset 0 and, behind 0x100 NOPs, at
\* offset 0x100
X86FnPrefixes == {<<>>, <<72>>}

X86FnOpcodes == {131, 132, 133, 137, 139}

X86FnModRMs == {192, 229, 69, 3}

X86FnCallRels == {0, 16}

NopRun == [i \in 1..256 |-> 144]

X86FnInputs ==
    {<<pre \o <<op, modrm, 16>>, 0>> : pre \in X86FnPrefixes, op \in X86FnOpcodes, modrm \in X86FnModRMs}
    \cup {<<<<232, rel, 0, 0, 0>>, 0>> : rel \in X86FnCallRels}
    \cup {<<NopRun \o <<232, rel, 0, 0, 0>>, 256>> : rel \in X86FnCallRels}

X86Calls == {<<"x86", in[1], in[2], checked>> : in \in X86FnInputs, checked \in BOOLEAN}

\* ARM words in file order, decoded at these offsets and section addresses
ArmFnWords ==
    {<<0, 0, 0, 0>>, <<234, 255, 255, 249>>, <<249, 255, 255, 234>>, <<0, 0, 0, 234>>,
     <<0, 0, 160, 225>>, <<0, 0, 0, 224>>, <<254, 255, 255, 235>>, <<4, 224, 45, 229>>}

ArmFnOffsets == {0, 32}

ArmFnAddrs == {0, 4096}

ArmCalls ==
    {<<"arm", [i \in 1..off |-> 0] \o w, off, a>> :
         w \in ArmFnWords, off \in ArmFnOffsets, a \in ArmFnAddrs}
    \cup {<<"arm", <<0, 0>>, 0, 0>>}

\* 32-bit JAL words (opcode 1101111): rd, then the four immediate fields
JalWord(d, b31, b30_21, b20, b19_12) ==
    [i \in 0..31 |->
        IF i <= 6 THEN (111 \div Pow2(i)) % 2
        ELSE IF i <= 11 THEN (d \div Pow2(i - 7)) % 2
        ELSE IF i <= 19 THEN (b19_12 \div Pow2(i - 12)) % 2
        ELSE IF i = 20 THEN b20
        ELSE IF i <= 30 THEN (b30_21 \div Pow2(i - 21)) % 2
        ELSE b31]

JalWords ==
    {JalWord(d, b31, b30_21, b20, b19_12) :
         d \in {0, 1}, b31 \in {0, 1}, b30_21 \in {0, 1, 512, 1023}, b20 \in {0, 1},
         b19_12 \in {0, 1, 255}}

\* RISC-V encodings by their fields: I-type and S-type words, and the
\* compressed CR format (funct4 = 100 b12, rd/rs1, rs2, op = 10)
RvIType(imm, s1, f3, d, opc) ==
    [i \in 0..31 |->
        IF i <= 6 THEN (opc \div Pow2(i)) % 2
        ELSE IF i <= 11 THEN (d \div Pow2(i - 7)) % 2
        ELSE IF i <= 14 THEN (f3 \div Pow2(i - 12)) % 2
        ELSE IF i <= 19 THEN (s1 \div Pow2(i - 15)) % 2
        ELSE (imm \div Pow2(i - 20)) % 2]

RvSType(imm, s2, s1, f3, opc) ==
    [i \in 0..31 |->
        IF i <= 6 THEN (opc \div Pow2(i)) % 2
        ELSE IF i <= 11 THEN (imm \div Pow2(i - 7)) % 2
        ELSE IF i <= 14 THEN (f3 \div Pow2(i - 12)) % 2
        ELSE IF i <= 19 THEN (s1 \div Pow2(i - 15)) % 2
        ELSE IF i <= 24 THEN (s2 \div Pow2(i - 20)) % 2
        ELSE (imm \div Pow2(i - 20)) % 2]

RvCRType(b12, r, s2) ==
    [i \in 0..15 |->
        IF i = 0 THEN 0
        ELSE IF i = 1 THEN 1
        ELSE IF i <= 6 THEN (s2 \div Pow2(i - 2)) % 2
        ELSE IF i <= 11 THEN (r \div Pow2(i - 7)) % 2
        ELSE IF i = 12 THEN b12
        ELSE IF i = 15 THEN 1 ELSE 0]

\* the first n bytes of a word, in file order
le_bytes(w, n) == [k \in 1..n |-> bv_val([i \in 0..7 |-> w[8 * (k - 1) + i]], 8)]

RvFnRegs == {0, 1, 5, 16}

RvFnImms == {0, 4, 4092}

RvJalrWords == {RvIType(imm, s1, 0, d, 103) : imm \in {0, 4}, s1 \in RvFnRegs, d \in RvFnRegs}

RvCJrHalfwords == {RvCRType(b12, r, 0) : b12 \in {0, 1}, r \in 1..31}

RvLoadWords ==
    {RvIType(imm, s1, f3, d, 3) : imm \in RvFnImms, s1 \in RvFnRegs, d \in {5, 16}, f3 \in 0..3}

RvStoreWords ==
    {RvSType(imm, s2, s1, f3, 35) :
         imm \in {0, 4, 32, 2047, 2048, 4095}, s2 \in {5}, s1 \in {2, 16}, f3 \in 0..3}

Rv32Calls == {<<"rv32", w, off>> : w \in JalWords \cup RvStoreWords, off \in {0, 4}}

RvCsrrwWords == {RvIType(c, 5, 1, d, 115) : c \in {0, 768}, d \in {0, 5}}

\* C.SWSP ra, 0(sp)
RvCSwspBytes == <<6, 192>>

RvFnInputs ==
    {le_bytes(w, 4) : w \in RvJalrWords \cup RvLoadWords \cup RvStoreWords \cup RvCsrrwWords}
    \cup {le_bytes(h, 2) : h \in RvCJrHalfwords}
    \cup {RvCSwspBytes}

RvCalls ==
    {<<"rv", [i \in 1..off |-> 1 - (i % 2)] \o bs, off>> : bs \in RvFnInputs, off \in {0, 4}}

FnCalls ==
    BextrCalls \cup ProgramCalls \cup X86Calls \cup ArmCalls \cup Rv32Calls \cup RvCalls

Pending == <<"pending">>
Returned(v) == <<"ret", v>>

InitFn ==
    /\ machine = "arm"
    /\ addr = 0
    /\ bytes = <<>>
    /\ symbol_table = [n \in {} |-> 0]
    /\ pc = "fn"
    /\ offset = 0
    /\ instrs = <<>>
    /\ symbols = <<>>
    /\ lift_instrs = <<>>
    /\ expr_list = <<>>
    /\ expr_builder = [change_lists |-> [n \in {} |-> NewChangeList], next_id |-> 1]
    /\ fn_call \in FnCalls
    /\ fn_result = Pending

\* the call with a field extraction that leaves the field where it was
call_bextr_keeps_low_bits ==
    /\ fn_call[1] = "bextr" /\ fn_result = Pending
    /\ fn_result' = Returned(bextr_keeps_low_bits(fn_call[3], fn_call[4], fn_call[5], fn_call[2]))
    /\ UNCHANGED <<fn_call, program_vars, pc, offset, instrs, decomp_vars>>

\* x.bextr(start, stop) on a u16 or a u32
call_bextr ==
    /\ fn_call[1] = "bextr" /\ fn_result = Pending
    /\ fn_result' = Returned(bextr(fn_call[3], fn_call[4], fn_call[5], fn_call[2]))
    /\ UNCHANGED <<fn_call, program_vars, pc, offset, instrs, decomp_vars>>

(***************************************************************************)
(* Printing (format!): numbers to text.                                     *)
(***************************************************************************)
HexDigits == <<"0", "1", "2", "3", "4", "5", "6", "7", "8", "9", "a", "b", "c", "d", "e", "f">>

RECURSIVE zeros(_)
zeros(k) == IF k <= 0 THEN "" ELSE "0" \o zeros(k - 1)

RECURSIVE fmt_hex(_, _)
\* {:x} with a minimum width, zero padded, of a non-negative integer
fmt_hex(n, width) ==
    IF n < 16 THEN zeros(width - 1) \o HexDigits[n + 1]
    ELSE fmt_hex(n \div 16, width - 1) \o HexDigits[(n % 16) + 1]

\* the same of a u32 held as a bit vector
fmt_hex_u32(x, width) ==
    LET hi == bv_val(shr(x, 16, 32), 32)
        lo == bv_val(x, 16)
    IN  IF hi = 0 THEN fmt_hex(lo, width) ELSE fmt_hex(hi, width - 4) \o fmt_hex(lo, 4)

RECURSIVE dec_digits(_)
dec_digits(n) ==
    IF n < 10 THEN HexDigits[n + 1] ELSE dec_digits(n \div 10) \o HexDigits[(n % 10) + 1]

\* {} of a signed integer
fmt_dec(n) == IF n < 0 THEN "-" \o dec_digits(0 - n) ELSE dec_digits(n)

i32_sign(x) == IF x < 0 THEN "-" ELSE "+"

abs(x) == IF x < 0 THEN 0 - x ELSE x

(***************************************************************************)
(* x86.rs: Operand::print and Instruction::print.                           *)
(***************************************************************************)
x86_ptr_reg_print(size_name, width, reg, o) ==
    IF o = 0 THEN size_name \o " PTR [" \o print_reg(3, reg) \o "]"
    ELSE size_name \o " PTR [" \o print_reg(3, reg) \o i32_sign(o) \o "0x"
             \o fmt_hex(abs(o), width) \o "]"

x86_ptr_rel_print(size_name, rel) == size_name \o " PTR [rip+0x" \o fmt_hex_u32(rel, 8) \o "]"

x86_ptr_reg_reg_print(size_name, base, index, mul) ==
    IF mul = 1 THEN size_name \o " PTR [" \o print_reg(3, base) \o "+" \o print_reg(3, index) \o "]"
    ELSE size_name \o " PTR [" \o print_reg(3, base) \o "+" \o print_reg(3, index) \o "*"
             \o fmt_dec(mul) \o "]"

x86_operand_print(operand) ==
    LET tag == operand[1]
    IN  CASE tag = "ImmU8" -> "0x" \o fmt_hex(operand[2], 1)
          [] tag = "ImmU32" -> "0x" \o fmt_hex_u32(operand[2], 1)
          [] tag = "ImmS8" -> fmt_dec(operand[2])
          [] tag = "Reg8" -> print_reg(0, operand[2])
          [] tag = "Reg8H" -> print_reg(4, operand[2])
          [] tag = "Reg16" -> print_reg(1, operand[2])
          [] tag = "Reg32" -> print_reg(2, operand[2])
          [] tag = "Reg64" -> print_reg(3, operand[2])
          [] tag = "PtrRegByte" -> x86_ptr_reg_print("BYTE", 2, operand[2], operand[3])
          [] tag = "PtrRegWord" -> x86_ptr_reg_print("WORD", 2, operand[2], operand[3])
          [] tag = "PtrRegDword" -> x86_ptr_reg_print("DWORD", 2, operand[2], operand[3])
          [] tag = "PtrRegQword" -> x86_ptr_reg_print("QWORD", 4, operand[2], operand[3])
          [] tag = "PtrRelByte" -> x86_ptr_rel_print("BYTE", operand[2])
          [] tag = "PtrRelWord" -> x86_ptr_rel_print("WORD", operand[2])
          [] tag = "PtrRelDword" -> x86_ptr_rel_print("DWORD", operand[2])
          [] tag = "PtrRelQword" -> x86_ptr_rel_print("QWORD", operand[2])
          [] tag = "PtrRegRegByte" ->
               x86_ptr_reg_reg_print("BYTE", operand[2], operand[3], operand[4])
          [] tag = "PtrRegRegWord" ->
               x86_ptr_reg_reg_print("WORD", operand[2], operand[3], operand[4])
          [] tag = "PtrRegRegDword" ->
               x86_ptr_reg_reg_print("DWORD", operand[2], operand[3], operand[4])
          [] tag = "PtrRegRegQword" ->
               x86_ptr_reg_reg_print("QWORD", operand[2], operand[3], operand[4])
          [] OTHER -> "???"

x86_mnemonics ==
    [Add |-> "add", Adc |-> "adc", Sub |-> "sub", Or |-> "or", And |-> "and", Xor |-> "xor",
     Test |-> "test", Cmp |-> "cmp", Mov |-> "mov"]

x86_print(ins) ==
    CASE ins.operation \in DOMAIN x86_mnemonics ->
           x86_mnemonics[ins.operation] \o " " \o x86_operand_print(ins.reg1) \o ", "
               \o x86_operand_print(ins.reg2)
      [] ins.operation = "Push" -> "push " \o x86_operand_print(ins.reg1)
      [] ins.operation = "Pop" -> "pop " \o x86_operand_print(ins.reg1)
      [] ins.operation = "Nop" -> "nop"
      [] ins.operation = "Ret" -> "ret"
      [] ins.operation = "Call" -> "call " \o x86_operand_print(ins.reg1)
      [] ins.operation = "Unknown" -> "(bad)"
      [] OTHER -> "unknown"

\* disassemble_x86_instruction(bytes, offset, 0), then Instruction::print
call_disassemble_x86_instruction ==
    /\ fn_call[1] = "x86" /\ fn_result = Pending
    /\ \E res \in {disassemble_x86_instruction(fn_call[2], fn_call[3], 0, fn_call[4])} :
           fn_result' = Returned([ins |-> res,
                                  text |-> IF is_some(res) THEN x86_print(unwrap(res)) ELSE ""])
    /\ UNCHANGED <<fn_call, program_vars, pc, offset, instrs, decomp_vars>>

\* dis.rs disassemble_program: the section it decodes and the driver it
\* hands it to.  Indexing section_table with a name it does not hold panics.
disassemble_program(machine_type, section_names) ==
    LET default_section == IF ".text" \in section_names THEN ".text" ELSE "file"
        driver == CASE machine_type = "arm" -> "disassemble_arm"
                    [] machine_type \in {"x86", "amd64"} -> "disassemble_x86"
                    [] machine_type = "riscv" -> "disassemble_riscv"
                    [] OTHER -> "Unknown"
    IN  IF driver # "Unknown" /\ default_section \notin section_names THEN Panic
        ELSE Some([section_name |-> default_section, driver |-> driver])

call_disassemble_program ==
    /\ fn_call[1] = "disassemble_program" /\ fn_result = Pending
    /\ fn_result' = Returned(disassemble_program(fn_call[2], fn_call[3]))
    /\ UNCHANGED <<fn_call, program_vars, pc, offset, instrs, decomp_vars>>

(***************************************************************************)
(* arm.rs: Operand::print, Operand::value and Instruction::print.           *)
(***************************************************************************)
condstr(c) ==
    IF c \in 0..14
    THEN <<"eq", "ne", "cs", "cc", "mi", "pl", "vs", "vc",
           "hi", "ls", "ge", "lt", "gt", "le", "">>[c + 1]
    ELSE "??"

RECURSIVE reg_list_print(_, _)
\* the loop of the RegList row from register i on; x has the bits below i cleared
reg_list_print(x, i) ==
    IF i >= 16 THEN ""
    ELSE IF (x \div Pow2(i)) % 2 = 1 THEN
        LET name == IF i = ARM_REG_LR THEN "lr" ELSE "r" \o fmt_dec(i)
            rest == x - Pow2(i)
        IN  IF rest = 0 THEN name ELSE name \o ", " \o reg_list_print(rest, i + 1)
    ELSE reg_list_print(x, i + 1)

arm_operand_print(o) ==
    LET shtystr(st) == IF st \in 0..3 THEN <<"lsl", "lsr", "asr", "ror">>[st + 1] ELSE "?"
    IN  CASE o[1] = "Reg" ->
               IF o[3] # 0 THEN "r" \o fmt_dec(o[2]) \o " " \o shtystr(o[4]) \o " #" \o fmt_dec(o[3])
               ELSE IF o[2] = ARM_REG_SP THEN "sp"
               ELSE IF o[2] = ARM_REG_LR THEN "lr"
               ELSE IF o[2] = ARM_REG_PC THEN "pc"
               ELSE "r" \o fmt_dec(o[2])
          [] o[1] = "RegList" -> "{" \o reg_list_print(o[2], 0) \o "}"
          [] o[1] = "Imm" ->
               IF o[3] # 0 THEN "#" \o fmt_dec(o[2]) \o " " \o shtystr(o[4]) \o " #" \o fmt_dec(o[3])
               ELSE "#" \o fmt_dec(o[2])
          [] o[1] = "SImm" -> "#" \o fmt_dec(o[2])
          [] o[1] = "Psr" ->
               (IF o[2] = 0 THEN "CPSR" ELSE "SPSR")
                   \o (IF o[3] = PSR_MODE_FLAG THEN "_flg"
                       ELSE IF o[3] = PSR_MODE_C THEN "_c" ELSE "")

arm_operand_value(o) ==
    CASE o[1] = "SImm" -> o[2]
      [] o[1] = "Imm" /\ o[3] = 0 -> o[2]
      [] o[1] = "Imm" /\ o[3] # 0 /\ o[4] = 0 -> o[2] * Pow2(o[3])
      [] o[1] = "Imm" /\ o[3] # 0 /\ o[4] \in {1, 2} -> o[2] \div Pow2(o[3])
      [] o[1] = "Imm" /\ o[3] # 0 /\ o[4] = 3 ->
             (o[2] \div Pow2(o[3] % 32)) + (o[2] % Pow2(o[3] % 32)) * Pow2(32 - (o[3] % 32))
      [] OTHER -> 0

arm_print(ins) ==
    LET c == condstr(ins.cond)
        f == IF ins.set_flags THEN "s" ELSE ""
        a == ins.args
        p(i) == arm_operand_print(a[i])
        \* {:08x} of an i64: a negative value prints all sixteen digits
        hex_i64(v) ==
            IF v >= 0 THEN fmt_hex(v, 8)
            ELSE LET w == (v + 2147483647) + 1
                 IN  "ffffffff" \o HexDigits[8 + (w \div 268435456) + 1]
                         \o fmt_hex(w % 268435456, 7)
        target == hex_i64(ins.offset + 8 + arm_operand_value(a[1]))
        lower == [And |-> "and", Eor |-> "eor", Sub |-> "sub", Rsb |-> "rsb", Add |-> "add",
                  Adc |-> "adc", Sbc |-> "sbc", Rsc |-> "rsc", Orr |-> "orr", Bic |-> "bic",
                  Tst |-> "tst", Teq |-> "teq", Cmp |-> "cmp", Cmn |-> "cmn"]
        bltamstr(am) == <<"da", "ia", "db", "ib">>[am + 1]
        block(name) == name \o c \o bltamstr(a[4]) \o " " \o p(1)
                           \o (IF a[3] THEN "!" ELSE "") \o ", " \o p(2)
        op == ins.opcode
    IN  CASE op = "Swi" -> "swi" \o c
          [] op = "Bx" -> "bx" \o c \o " " \o p(1)
          [] op = "B" -> "b" \o c \o " _" \o target
          [] op = "Bl" -> "bl" \o c \o " _" \o target
          [] op = "Mrs" -> "mrs" \o c \o " " \o p(1) \o ", " \o p(2)
          [] op = "Msr" -> "msr" \o c \o " " \o p(1) \o ", " \o p(2)
          [] op = "Mul" -> "mul" \o c \o f \o " " \o p(1) \o ", " \o p(2) \o ", " \o p(3)
          [] op = "MulA" ->
               "mla" \o c \o f \o " " \o p(1) \o ", " \o p(2) \o ", " \o p(3) \o ", " \o p(4)
          [] op = "Str" -> "str" \o c \o " " \o p(1) \o ", [" \o p(2) \o ", " \o p(3) \o "]"
          [] op = "Ldr" -> "ldr" \o c \o " " \o p(1) \o ", [" \o p(2) \o ", " \o p(3) \o "]"
          [] op \in {"And", "Eor", "Sub", "Rsb", "Add", "Adc", "Sbc", "Rsc", "Orr", "Bic"} ->
               lower[op] \o c \o f \o " " \o p(1) \o ", " \o p(2) \o ", " \o p(3)
          [] op \in {"Tst", "Teq", "Cmp", "Cmn"} -> lower[op] \o c \o " " \o p(1) \o ", " \o p(2)
          [] op = "Mov" ->
               IF a[1][1] = "Reg" /\ a[2][1] = "Reg" /\ a[1][2] = a[2][2] THEN "nop"
               ELSE "mov" \o c \o " " \o p(1) \o ", " \o p(2)
          [] op = "Mvn" -> "mvn" \o c \o " " \o p(1) \o ", " \o p(2)
          [] op = "Stm" ->
               IF a[1][2] = ARM_REG_SP /\ a[3] /\ a[4] = BLTAM_DB /\ ins.cond = COND_AL
               THEN "push " \o p(2) ELSE block("stm")
          [] op = "Ldm" ->
               IF a[1][2] = ARM_REG_SP /\ a[3] /\ a[4] = BLTAM_IA /\ ins.cond = COND_AL
               THEN "pop " \o p(2) ELSE block("ldm")
          [] op = "Unknown" -> "???"

\* disassemble_ins(bytes, offset, address), then Instruction::print
call_disassemble_ins ==
    /\ fn_call[1] = "arm" /\ fn_result = Pending
    /\ \E res \in {disassemble_ins(fn_call[2], fn_call[3], fn_call[4])} :
           fn_result' = Returned([ins |-> res,
                                  text |-> IF is_some(res) THEN arm_print(unwrap(res)) ELSE ""])
    /\ UNCHANGED <<fn_call, program_vars, pc, offset, instrs, decomp_vars>>

\* disassemble_32(ins, offset) on one 32-bit word
call_disassemble_32 ==
    /\ fn_call[1] = "rv32" /\ fn_result = Pending
    /\ fn_result' = Returned(disassemble_32(fn_call[2], fn_call[3]))
    /\ UNCHANGED <<fn_call, program_vars, pc, offset, instrs, decomp_vars>>

\* disassemble_instruction(bytes, offset), then Instruction::into_expr
call_disassemble_instruction ==
    /\ fn_call[1] = "rv" /\ fn_result = Pending
    /\ \E res \in {disassemble_instruction(fn_call[2], fn_call[3])} :
           fn_result' = Returned([ins |-> res,
                                  expr |-> IF is_some(res) THEN rv_into_expr(unwrap(res))
                                           ELSE <<"none">>])
    /\ UNCHANGED <<fn_call, program_vars, pc, offset, instrs, decomp_vars>>

NextFn ==
    \/ call_bextr
    \/ call_disassemble_program
    \/ call_disassemble_x86_instruction
    \/ call_disassemble_ins
    \/ call_disassemble_32
    \/ call_disassemble_instruction

SpecFn == InitFn /\ [][NextFn]_vars

\* bits lo..hi of x, moved down to bit 0: (x >> lo) & ((1 << (hi - lo + 1)) - 1)
BitField(x, hi, lo, W) == [i \in 0..(W - 1) |-> IF i <= hi - lo THEN x[i + lo] ELSE 0]

\* C12: for a word x of 16 or 32 bits and 0 <= lo <= hi < W, bextr(x, hi, lo)
\* is (x >> lo) & ((1 << (hi - lo + 1)) - 1), and neither of its two shift
\* amounts reaches W.
C12_BextrIsBitField ==
    (fn_call[1] = "bextr" /\ fn_result # Pending) =>
        LET W == fn_call[2]
            hi == fn_call[4]
            lo == fn_call[5]
        IN  /\ fn_result = Returned(BitField(fn_call[3], hi, lo, W))
            /\ W - hi - 1 < W
            /\ W - (hi - lo) - 1 < W

\* bits 15..8 of the 32-bit word 1010...10 have been extracted
C12_Witness ==
    /\ fn_call = <<"bextr", 32, [i \in 0..31 |-> (i + 1) % 2], 15, 8>>
    /\ fn_result = Returned(bv_const(85, 32))

\* C13: for a program with at least one section and a machine tag among
\* arm, x86, amd64, riscv, disassemble_program returns the Disassembly of
\* .text when the program has it and of file otherwise, a section the
\* program has; it does not fail.
C13_SectionIsChosen ==
    (fn_call[1] = "disassemble_program" /\ fn_result # Pending
        /\ fn_call[2] \in {"arm", "x86", "amd64", "riscv"}) =>
        /\ is_some(fn_result[2])
        /\ unwrap(fn_result[2]).section_name = (IF ".text" \in fn_call[3] THEN ".text" ELSE "file")
        /\ unwrap(fn_result[2]).section_name \in fn_call[3]

\* C14: when k >= 1 REX.W bytes start at offset and the bytes after them
\* decode to an instruction of size n, the decoder returns one instruction
\* with that offset and ins_size n + k; when the bytes after the prefixes do
\* not decode, it returns no instruction.
C14_PrefixesCountInSize ==
    (machine = "x86" /\ AtLoopBody /\ ByteAt(bytes, offset) = OPCODE_REX_W) =>
        \A checked \in BOOLEAN :
            LET k == rex_w_run(bytes, offset)
                tail == disassemble_x86_instruction(bytes, offset + k, PREFIX_REX_W, checked)
                whole == disassemble_x86_instruction(bytes, offset, 0, checked)
            IN  /\ is_some(tail) =>
                      /\ is_some(whole)
                      /\ unwrap(whole).offset = offset
                      /\ unwrap(whole).ins_size = unwrap(tail).ins_size + k
                /\ tail = None => whole = None

\* the operand size an x86 operand was built with
OperandSize(operand) ==
    CASE operand[1] \in {"Reg8H", "PtrRegByte", "PtrRegRegByte", "PtrRelByte"} -> OPSIZE_BYTE
      [] operand[1] \in {"Reg16", "PtrRegWord", "PtrRegRegWord", "PtrRelWord"} -> OPSIZE_WORD
      [] operand[1] \in {"Reg32", "PtrRegDword", "PtrRegRegDword", "PtrRelDword"} -> OPSIZE_DWORD
      [] operand[1] \in {"Reg64", "PtrRegQword", "PtrRegRegQword", "PtrRelQword"} -> OPSIZE_QWORD
      [] OTHER -> -1

\* the single x86 call has returned an instruction
X86Decoded == fn_call[1] = "x86" /\ fn_result # Pending /\ is_some(fn_result[2].ins)

HasRexW == ByteAt(fn_call[2], fn_call[3]) = OPCODE_REX_W

\* the opcode byte, after the REX.W prefix if there is one
OpcodeByte == ByteAt(fn_call[2], fn_call[3] + (IF HasRexW THEN 1 ELSE 0))

ModRMByte == ByteAt(fn_call[2], fn_call[3] + (IF HasRexW THEN 2 ELSE 1))

\* C15: for the opcodes 0x89, 0x8B, 0x85 and 0x83 every sized operand of the
\* decoded instruction is QWORD when a REX.W prefix precedes the opcode and
\* DWORD when none does.
C15_RexWPicksQword ==
    (X86Decoded /\ OpcodeByte \in {137, 139, 133, 131}) =>
        \A operand \in {unwrap(fn_result[2].ins).reg1, unwrap(fn_result[2].ins).reg2} :
            OperandSize(operand) \in
                {-1, IF HasRexW THEN OPSIZE_QWORD ELSE OPSIZE_DWORD}

\* C16: for opcode 0x89 with ModR/M mod = 11 the destination is the register
\* of the r/m field and the source the register of the reg field; the bytes
\* 48 89 E5 are one MOV of 3 bytes printed `mov rbp, rsp`.
C16_MovStoreDestIsRm ==
    (X86Decoded /\ OpcodeByte = 137 /\ ModRMByte \div 64 = 3) =>
        LET ins == unwrap(fn_result[2].ins)
        IN  /\ ins.operation = "Mov"
            /\ ins.reg1[2] = ModRMByte % 8
            /\ ins.reg2[2] = (ModRMByte \div 8) % 8
            /\ SubSeq(fn_call[2], 1, 3) = <<72, 137, 229>> =>
                  (ins.ins_size = 3 /\ fn_result[2].text = "mov rbp, rsp")

\* the rel32 displacement of the CALL at the call's offset, as an integer
\* (the inputs keep it below 2^8)
CallRel == ByteAt(fn_call[2], fn_call[3] + 1)

\* C17: a CALL rel32 prints as `call` and its target in hex, the target
\* being the instruction's offset plus its size plus the displacement:
\* E8 00 00 00 00 at offset 0x100 is 5 bytes and prints `call 0x105`.
C17_CallTargetIsAbsolute ==
    (X86Decoded /\ OpcodeByte = 232) =>
        /\ unwrap(fn_result[2].ins).ins_size = 5
        /\ fn_result[2].text = "call 0x" \o fmt_hex(fn_call[3] + 5 + CallRel, 1)

ArmDecoded == fn_call[1] = "arm" /\ fn_result # Pending /\ is_some(fn_result[2].ins)

\* the four bytes the call decodes, in file order
ArmWordBytes == SubSeq(fn_call[2], fn_call[3] + 1, fn_call[3] + 4)

\* C18: the ARM word 0x00000000 decodes as AND with condition EQ, Rd = Rn =
\* Rm = r0 and set_flags false, and as no other opcode tag.
C18_ZeroWordIsAnd ==
    (ArmDecoded /\ ArmWordBytes = <<0, 0, 0, 0>>) =>
        LET ins == unwrap(fn_result[2].ins)
            r0 == <<"Reg", 0, 0, 0>>
        IN  /\ ins.opcode = "And"
            /\ ins.cond = 0
            /\ ins.args = <<r0, r0, r0>>
            /\ ins.set_flags = FALSE

\* C19: the bytes EA FF FF F9 at offset 0x20 of a section at address 0 decode
\* to an unconditional B that prints as "b _00000010".
C19_BranchBackPrintsTarget ==
    (ArmDecoded /\ ArmWordBytes = <<234, 255, 255, 249>> /\ fn_call[3] = 32 /\ fn_call[4] = 0) =>
        LET ins == unwrap(fn_result[2].ins)
        IN  /\ ins.opcode = "B"
            /\ ins.cond = COND_AL
            /\ fn_result[2].text = "b _00000010"

\* the J-type immediate of the RISC-V manual: imm[20] = bit 31 (the sign),
\* imm[10:1] = bits 30..21, imm[11] = bit 20, imm[19:12] = bits 19..12
JImmediate(w) ==
    (2 * bextr32(w, 30, 21) + 2048 * w[20] + 4096 * bextr32(w, 19, 12)) - 1048576 * w[31]

\* C20: for every 32-bit word with opcode 1101111 the decoded immediate is the
\* sign-extended 21-bit J-type immediate, negative exactly when bit 31 is set.
C20_JalImmediateIsSignExtended ==
    (fn_call[1] = "rv32" /\ fn_result # Pending /\ rv_opcode(fn_call[2]) = 111) =>
        /\ is_some(fn_result[2])
        /\ unwrap(fn_result[2]).operation = "Jal"
        /\ unwrap(fn_result[2]).imm = ImmS32(JImmediate(fn_call[2]))
        /\ (unwrap(fn_result[2]).imm[2] < 0) <=> (fn_call[2][31] = 1)

RvLifted == fn_call[1] = "rv" /\ fn_result # Pending

\* the bytes the call decodes: n of them from the call's offset on, if there
\* are that many
RvBytesAt(n) ==
    IF fn_call[3] + n <= Len(fn_call[2]) THEN SubSeq(fn_call[2], fn_call[3] + 1, fn_call[3] + n)
    ELSE <<>>

\* C21: the compressed C.JR x5 and the 32-bit JALR x0, x5, 0 lift to the same
\* IR, Goto of the register x5 (t0).
C21_CJrLiftsLikeJalr ==
    (RvLifted /\ (\/ RvBytesAt(2) = le_bytes(RvCRType(0, 5, 0), 2)
                  \/ RvBytesAt(4) = le_bytes(RvIType(0, 5, 0, 0, 103), 4))) =>
        /\ is_some(fn_result[2].ins)
        /\ fn_result[2].expr = expr_goto(expr_register(register_name(5)))

C21_Witness ==
    /\ RvLifted
    /\ fn_call[3] = 0
    /\ fn_call[2] = <<130, 130>>
    /\ fn_result[2].expr = <<"Goto", <<"Register", "t0">> >>

\* C22: every entry of every instruction list, decoded or Unknown, has an
\* ins_size within its ISA's bound: 4 on ARM, 2 or 4 on RISC-V, 1 to 8 on x86.
C22_SizesWithinIsaBound ==
    \A i \in 1..Len(instrs) :
        CASE machine = "arm" -> instrs[i].ins_size = 4
          [] machine = "riscv" -> instrs[i].ins_size \in {2, 4}
          [] machine = "x86" -> instrs[i].ins_size \in 1..8

\* the S-type immediate of the RISC-V manual: imm[11:5] = bits 31..25 and
\* imm[4:0] = bits 11..7, sign-extended from 12 bits
SImmediate(w) == (32 * bextr32(w, 30, 25) + bextr32(w, 11, 7)) - 2048 * w[31]

\* C23: for every 32-bit store word (opcode 0100011) the decoded immediate is
\* the sign-extended 12-bit concatenation of bits 31..25 and bits 11..7.
C23_StoreImmediateIsSplit ==
    (fn_call[1] = "rv32" /\ fn_result # Pending /\ rv_opcode(fn_call[2]) = 35) =>
        /\ is_some(fn_result[2])
        /\ unwrap(fn_result[2]).operation \in {"Sb", "Sh", "Sw", "Sd"}
        /\ unwrap(fn_result[2]).imm = ImmS32(SImmediate(fn_call[2]))

\* the call decoded a 32-bit word of this opcode and lifted it
RvLiftedWord(opc) ==
    /\ RvLifted
    /\ RvBytesAt(4) # <<>>
    /\ rv_opcode(u32_from_le_bytes(fn_call[2], fn_call[3])) = opc
    /\ is_some(fn_result[2].ins)

\* C24: LB, LH, LW and LD lift to Store(rd, Dereference(size, rs1)) when the
\* immediate is zero and to Store(rd, Dereference(size, rs1 + imm)) otherwise,
\* with size 1, 2, 4, 8; the address always names the base register rs1.
C24_LoadAddressIsBase ==
    (RvLiftedWord(3) /\ unwrap(fn_result[2].ins).operation \in {"Lb", "Lh", "Lw", "Ld"}) =>
        LET ins == unwrap(fn_result[2].ins)
            size == rv_access_size[ins.operation]
            dest == expr_register(register_name(ins.rd[2]))
            base == expr_register(register_name(ins.rs1[2]))
        IN  fn_result[2].expr =
                IF ins.imm[2] = 0 THEN expr_store(dest, expr_dereference(size, base))
                ELSE expr_store(dest, expr_dereference(size,
                         expr_binary(OP_ADD, base, expr_constant(ins.imm[2]))))

\* C25: the opcode 0x84 decodes to TEST with byte operands, as 0x85 decodes to
\* TEST with dword or qword operands; neither decodes to MOV.
C25_Opcode84IsTest ==
    (X86Decoded /\ OpcodeByte \in {132, 133}) =>
        LET ins == unwrap(fn_result[2].ins)
        IN  /\ ins.operation = "Test"
            /\ OpcodeByte = 132 =>
                   \A operand \in {ins.reg1, ins.reg2} : OperandSize(operand) = OPSIZE_BYTE

\* the call decoded a JALR, from a 32-bit word or from a compressed halfword
RvJalrLifted ==
    RvLifted /\ is_some(fn_result[2].ins) /\ unwrap(fn_result[2].ins).operation = "Jalr"

\* C26: a JALR lifts by its register fields, whatever its encoding: rd = x0
\* and rs1 = ra give Return, rd = x0 and another rs1 give Goto(rs1), rd = ra
\* gives Call(rs1), any other rd gives Special("jal", [rd, rs1]).
C26_JalrLiftsByRegisters ==
    RvJalrLifted =>
        LET ins == unwrap(fn_result[2].ins)
            d == ins.rd[2]
            s1 == ins.rs1[2]
            rd_expr == expr_register(register_name(d))
            rs1_expr == expr_register(register_name(s1))
        IN  /\ ins.rd[1] = "Reg" /\ ins.rs1[1] = "Reg"
            /\ fn_result[2].expr =
                   CASE d = 0 /\ s1 = REG_RA -> expr_ret
                     [] d = 0 /\ s1 # REG_RA -> expr_goto(rs1_expr)
                     [] d = REG_RA -> expr_call(rs1_expr)
                     [] OTHER -> expr_special("jal", <<rd_expr, rs1_expr>>)

\* a compressed jump to x5 has lifted to Goto
C26_Witness ==
    /\ RvJalrLifted
    /\ unwrap(fn_result[2].ins).ins_size = 2
    /\ unwrap(fn_result[2].ins).rs1 = Reg(5)
    /\ fn_result[2].expr = expr_goto(expr_register("t0"))

\* C27: the x86 decoder reads no byte at or beyond bytes.len(), so the driver
\* runs to its end on every section; sections too short for the u8 ins_size
\* to overflow leave an out-of-range read as the only way to stop early.
C27_X86ReadsStayInBounds ==
    (machine = "x86" /\ Len(bytes) < Pow2(U8Bits) - 1) => pc # "dis_panic"

\* C28: decomp_disassembly emits Label(name) at an instruction exactly when
\* the disassembly printer prints that name as a label before it, that is
\* when the symbol's address is section.addr plus the instruction's offset.
C28_LabelsMatchPrinter ==
    [][(pc = "decomp" /\ lift_instrs # <<>>) =>
          \A i \in 1..Len(symbols) :
              (expr_list' = Append(expr_list, expr_label(symbols[i][2])))
                  <=> /\ symbols[i][2] \in printed_labels(machine, addr, symbols, Head(lift_instrs))
                      /\ symbols[i][1] = addr + Head(lift_instrs).offset]_vars

\* C29: for every register r of x1..x31 the halfword C.JR r (bit 12 clear,
\* rs2 field zero) decodes to a JALR with rd = x0 and rs1 = r and lifts to
\* Return for r = ra and to Goto(r) otherwise, never to a Call or an Unknown.
C29_CJrOfEveryRegister ==
    \A r \in 1..31 :
        (RvLifted /\ RvBytesAt(2) = le_bytes(RvCRType(0, r, 0), 2)) =>
            /\ is_some(fn_result[2].ins)
            /\ unwrap(fn_result[2].ins).operation = "Jalr"
            /\ unwrap(fn_result[2].ins).rd = Reg(REG_ZERO)
            /\ unwrap(fn_result[2].ins).rs1 = Reg(r)
            /\ fn_result[2].expr = IF r = REG_RA THEN expr_ret
                                   ELSE expr_goto(expr_register(register_name(r)))

\* the bytes at the call's offset are a store encoding: a 32-bit word with
\* opcode 0100011, or the compressed C.SWSP (op = 10, funct3 = 110)
RvStoreEncoding ==
    LET half == u16_from_le_bytes(fn_call[2], fn_call[3])
    IN  IF bextr16(half, 1, 0) = 3
        THEN RvBytesAt(4) # <<>> /\ rv_opcode(u32_from_le_bytes(fn_call[2], fn_call[3])) = 35
        ELSE bextr16(half, 1, 0) = 2 /\ bextr16(half, 15, 13) = 6

\* C30: the RISC-V decoder gives a store operation (SB, SH, SW, SD), and the
\* lifter a store to memory, only for a store encoding; a word of another
\* opcode, the system opcode 1110011 included, is never a memory store.
C30_StoresComeFromStoreEncodings ==
    (RvLifted /\ is_some(fn_result[2].ins)) =>
        LET ins == unwrap(fn_result[2].ins)
            expr == fn_result[2].expr
            lifted_as_store == expr[1] = "Store" /\ expr[2][1] = "Dereference"
        IN  (ins.operation \in {"Sb", "Sh", "Sw", "Sd"} \/ lifted_as_store) => RvStoreEncoding

====
